---- MODULE Spec2Model ----
(***************************************************************************)
(* Model of seqan3::views::minimiser (include/seqan3/range/views/          *)
(* minimiser.hpp), of the adaptors that construct a minimiser_view, and of *)
(* seqan3::views::syncmer (include/seqan3/range/views/syncmer.hpp).        *)
(*                                                                         *)
(* A run is one call of an adaptor followed by the consumer loop           *)
(*     for (auto it = view.begin(); it != view.end(); ++it) out += *it;    *)
(* Positions are the 0-based indices of the C++ code; the element at       *)
(* index i of a range r is r[i + 1].  window_right = Len(urange) is the    *)
(* sentinel.                                                               *)
(***************************************************************************)
EXTENDS Integers, Sequences, FiniteSets, TLC

VARIABLES
    call,      \* the adaptor call: function called and its arguments
    view,      \* the minimiser_view: urange and window_values_size
    it,        \* the window_iterator: minimiser_value, window_right, window_values
    pc,        \* position of the caller / consumer loop
    out,       \* values the consumer read through operator*
    out_pos,   \* input index std::min_element (or window_right) pointed at for each value read
    min_pos,   \* input index of the element the cached minimiser_value was read from
    shifts,    \* number of next_minimiser calls that moved the window
    tmp        \* the iterator a post-increment returned, and what was read through it

vars == <<call, view, it, pc, out, out_pos, min_pos, shifts, tmp>>

----------------------------------------------------------------------------
(* Bounds of the model *)

MaxLen == 5
MaxVal == 2
MaxW == 6

(* 2^16: a uint32_t is kept as <<high half, low half>> *)
Half == 65536

----------------------------------------------------------------------------
(* Inputs *)

RECURSIVE SeqsUpTo(_, _)
SeqsUpTo(S, n) ==
    IF n = 0 THEN {<<>>}
    ELSE LET shorter == SeqsUpTo(S, n - 1)
         IN  shorter \cup {Append(s, v) : s \in {t \in shorter : Len(t) = n - 1}, v \in S}

Zeros(n) == [i \in 1..n |-> 0]

DocHashes == <<28, 100, 9, 23, 4, 1, 72, 37, 8>>
SnippetHashes == <<6, 27, 44, 50, 9>>
SeventeenZeros == Zeros(17)

ScenarioInputs == {DocHashes, SnippetHashes, SeventeenZeros}

Inputs == SeqsUpTo(0..MaxVal, MaxLen) \cup ScenarioInputs

----------------------------------------------------------------------------
(* uint32_t arithmetic of window_first *)

\* fault: the priming loop stops one value early (w - 2 for w - 1)
U32Dec_OneShort(w) == IF w <= 1 THEN <<0, 0>> ELSE <<0, w - 2>>

\* uint32_t{w} - 1, as <<high half, low half>>
U32Dec(w) ==
    IF w = 0 THEN <<Half - 1, Half - 1>>
    ELSE <<(w - 1) \div Half, (w - 1) % Half>>

\* i < b for a uint32_t i below 2^16 and b = <<high, low>>
U32Less(i, b) == b[1] > 0 \/ i < b[2]

----------------------------------------------------------------------------
(* std::min_element: index (1-based in the deque) of the leftmost minimum *)

RECURSIVE MinElementFrom(_, _, _)
MinElementFrom(s, i, best) ==
    IF i > Len(s) THEN best
    ELSE MinElementFrom(s, i + 1, IF s[i] < s[best] THEN i ELSE best)

\* fault: the first element instead of the smallest
MinElement_First(s) == 1

MinElement(s) == MinElementFrom(s, 2, 1)

----------------------------------------------------------------------------
(* minimiser_fn::operator()(urange, window_values_size) *)

\* fault: the check of the window size is missing
InvalidWindow_Never(window_values_size) == FALSE

InvalidWindow(window_values_size) == window_values_size = 1

\* fault: the window size is not clamped to the length of the range
ClampWindow_None(window_values_size, distance) == window_values_size

(* window_iterator constructor: clamp of the window size *)
ClampWindow(window_values_size, distance) ==
    IF window_values_size > distance THEN distance ELSE window_values_size

NoIterator == [minimiser_value |-> 0, window_right |-> 0, window_values |-> <<>>]

\* no post-increment took place: there is no second iterator
NoCopy == [made |-> FALSE, it |-> NoIterator, from |-> 0, out |-> <<>>]

(* window_first: the loop, then the last push_back and min_element.        *)
(* Dereferencing window_right at the sentinel is undefined: ub is TRUE.    *)
RECURSIVE WindowFirstLoop(_, _, _, _, _)
WindowFirstLoop(urange, i, bound, window_right, window_values) ==
    IF window_right >= Len(urange)
    THEN [ub |-> TRUE, window_right |-> window_right, window_values |-> window_values]
    ELSE IF U32Less(i, bound)
         THEN WindowFirstLoop(urange, i + 1, bound, window_right + 1,
                              Append(window_values, urange[window_right + 1]))
         ELSE [ub |-> FALSE, window_right |-> window_right,
               window_values |-> Append(window_values, urange[window_right + 1])]

WindowFirst(urange, window_values_size) ==
    LET r == WindowFirstLoop(urange, 0, U32Dec(window_values_size), 0, <<>>)
    IN  IF r.ub
        THEN [ub |-> TRUE, pos |-> 0,
              it |-> [minimiser_value |-> 0, window_right |-> r.window_right,
                      window_values |-> r.window_values]]
        ELSE LET m == MinElement(r.window_values)
             IN  [ub |-> FALSE,
                  pos |-> r.window_right - Len(r.window_values) + m,
                  it |-> [minimiser_value |-> r.window_values[m],
                          window_right |-> r.window_right,
                          window_values |-> r.window_values]]

\* fault: the first window is filled without looking at the sentinel
NotAtEnd_Always(window_right, urange) == TRUE

\* window_right != urange_end
NotAtEnd(window_right, urange) == window_right # Len(urange)

(* window_iterator(it_start, it_end, window_values_size) *)
WindowIterator(urange, window_values_size) ==
    LET w == ClampWindow(window_values_size, Len(urange))
    IN  IF NotAtEnd(0, urange)
        THEN WindowFirst(urange, w)
        ELSE [ub |-> FALSE, pos |-> 0, it |-> NoIterator]

(* next_minimiser: ret is the returned bool, pos the index of the element  *)
(* the new minimiser_value was read from (old is kept when unchanged).     *)
\* fault: '<=' for '<' in the comparison of the arriving value
NewValueSmaller_LessEqual(new_value, minimiser_value) == new_value <= minimiser_value

NewValueSmaller(new_value, minimiser_value) == new_value < minimiser_value

\* fault: the leaving element is never recognised as the minimiser
MinimiserLeaves_Never(minimiser_value, front) == FALSE

\* fault: the minimiser is recomputed and returned at every shift
MinimiserLeaves_Always(minimiser_value, front) == TRUE

MinimiserLeaves(minimiser_value, front) == minimiser_value = front

NextMinimiser(urange, i, old_pos) ==
    LET window_right == i.window_right + 1
    IN  IF window_right = Len(urange)
        THEN [ret |-> TRUE, pos |-> old_pos, it |-> [i EXCEPT !.window_right = window_right]]
        ELSE LET new_value == urange[window_right + 1]
                 shifted == Append(Tail(i.window_values), new_value)
             IN  IF MinimiserLeaves(i.minimiser_value, Head(i.window_values))
                 THEN LET m == MinElement(shifted)
                      IN  [ret |-> TRUE,
                           pos |-> window_right - Len(shifted) + m,
                           it |-> [minimiser_value |-> shifted[m],
                                   window_right |-> window_right,
                                   window_values |-> shifted]]
                 ELSE IF NewValueSmaller(new_value, i.minimiser_value)
                      THEN [ret |-> TRUE, pos |-> window_right,
                            it |-> [minimiser_value |-> new_value,
                                    window_right |-> window_right,
                                    window_values |-> shifted]]
                      ELSE [ret |-> FALSE, pos |-> old_pos,
                            it |-> [minimiser_value |-> i.minimiser_value,
                                    window_right |-> window_right,
                                    window_values |-> shifted]]

----------------------------------------------------------------------------
(* State machine *)

NoView == [urange |-> <<>>, window_values_size |-> 0]

\* views::minimiser(w) goes through minimiser_fn; weighted_minimiser_hash
\* constructs detail::minimiser_view directly, with at least one value per window.
Init ==
    /\ \E u \in Inputs :
          \/ \E w \in 0..MaxW :
                call = [fn |-> "minimiser", urange |-> u, window_values_size |-> w]
          \/ \E w \in 1..MaxW :
                call = [fn |-> "minimiser_view", urange |-> u, window_values_size |-> w]
    /\ view = NoView
    /\ it = NoIterator
    /\ pc = "call"
    /\ out = <<>>
    /\ out_pos = <<>>
    /\ min_pos = 0
    /\ shifts = 0
    /\ tmp = NoCopy

(* minimiser_fn::operator(): throws for a window of one value *)
MinimiserThrow ==
    /\ pc = "call"
    /\ call.fn = "minimiser"
    /\ InvalidWindow(call.window_values_size)
    /\ pc' = "thrown"
    /\ UNCHANGED <<call, view, it, out, out_pos, min_pos, shifts, tmp>>

(* minimiser_fn::operator(): returns minimiser_view{urange, window_values_size} *)
MinimiserView ==
    /\ pc = "call"
    /\ call.fn = "minimiser"
    /\ ~InvalidWindow(call.window_values_size)
    /\ view' = [urange |-> call.urange, window_values_size |-> call.window_values_size]
    /\ pc' = "view"
    /\ UNCHANGED <<call, it, out, out_pos, min_pos, shifts, tmp>>

(* minimiser_view(urange, w) called without the adaptor *)
ConstructView ==
    /\ pc = "call"
    /\ call.fn = "minimiser_view"
    /\ view' = [urange |-> call.urange, window_values_size |-> call.window_values_size]
    /\ pc' = "view"
    /\ UNCHANGED <<call, it, out, out_pos, min_pos, shifts, tmp>>

(* minimiser_view::begin() *)
Begin ==
    /\ pc = "view"
    /\ LET r == WindowIterator(view.urange, view.window_values_size)
       IN  IF r.ub
           THEN \* *window_right at the sentinel: the value read is arbitrary
                \E garbage \in 0..MaxVal :
                    /\ it' = [r.it EXCEPT !.window_values = Append(@, garbage)]
                    /\ min_pos' = r.pos
                    /\ pc' = "ub"
           ELSE /\ it' = r.it
                /\ min_pos' = r.pos
                /\ pc' = "iter"
    /\ UNCHANGED <<call, view, out, out_pos, shifts, tmp>>

\* fault: the iterator compares equal to the sentinel one element early
EqualsEnd_OneEarly(window_right, urange) == window_right = Len(urange) - 1

\* operator==(window_iterator, sentinel): lhs.window_right == rhs
EqualsEnd(window_right, urange) == window_right = Len(urange)

(* consumer: it != end, then *it *)
Deref ==
    /\ pc = "iter"
    /\ ~EqualsEnd(it.window_right, view.urange)
    /\ out' = Append(out, it.minimiser_value)
    /\ out_pos' = Append(out_pos, min_pos)
    /\ pc' = "read"
    /\ UNCHANGED <<call, view, it, min_pos, shifts, tmp>>

(* operator++ / get_minimiser: one call of next_minimiser in the while loop *)
Shift ==
    /\ pc \in {"read", "inc"}
    /\ LET r == NextMinimiser(view.urange, it, min_pos)
       IN  /\ it' = r.it
           /\ min_pos' = r.pos
           /\ pc' = IF r.ret THEN "iter" ELSE "inc"
           /\ shifts' = IF r.it.window_right = Len(view.urange) THEN shifts ELSE shifts + 1
    /\ UNCHANGED <<call, view, out, out_pos, tmp>>

(* consumer: it == end *)
AtEnd ==
    /\ pc = "iter"
    /\ EqualsEnd(it.window_right, view.urange)
    /\ pc' = "done"
    /\ UNCHANGED <<call, view, it, out, out_pos, min_pos, shifts, tmp>>

Next ==
    \/ MinimiserThrow
    \/ MinimiserView
    \/ ConstructView
    \/ Begin
    \/ Deref
    \/ Shift
    \/ AtEnd

Spec == Init /\ [][Next]_vars

----------------------------------------------------------------------------
(* weighted_minimiser_hash.  The two strands are the hash streams the lambda
   of the adaptor zips: forward_strand and reverse_strand, after kmer_hash
   and the seed.  bloomfilter is the set of hashes for which
   membership_agent().bulk_contains(h)[0] > 0. *)

MaxStrandLen == 2
MaxHash == 1
MaxFlagged == 1
MaxShape == 1
MaxWindowSize == 3

\* text1 of the unit test: 19 A's, ungapped{4}, window_size{8}, seed{0}, CGAC and aaac flagged;
\* every forward 4-mer is AAAA (hash 0), every reverse-complement 4-mer TTTT (hash 255)
PolyACall ==
    [fn |-> "weighted_minimiser_hash",
     forward_strand |-> Zeros(16),
     reverse_strand |-> [i \in 1..16 |-> 255],
     bloomfilter |-> {97, 1},
     shape_size |-> 4,
     window_size |-> 8]

\* text3 of the unit test: ACGGCGACGTTTAG, ungapped{4}, window_size{8}, seed{0}, CGAC and aaac
\* flagged; the hashes of the 4-mers and of their reverse complements
Text3Call ==
    [fn |-> "weighted_minimiser_hash",
     forward_strand |-> <<26, 105, 166, 152, 97, 134, 27, 111, 191, 252, 242>>,
     reverse_strand |-> <<91, 150, 101, 217, 182, 109, 27, 6, 1, 192, 112>>,
     bloomfilter |-> {97, 1},
     shape_size |-> 4,
     window_size |-> 8]

\* a flagged k-mer next to an unflagged one with larger hashes
FlaggedSmallerCall ==
    [fn |-> "weighted_minimiser_hash",
     forward_strand |-> <<0, 2>>,
     reverse_strand |-> <<1, 3>>,
     bloomfilter |-> {0},
     shape_size |-> 1,
     window_size |-> 2]

\* fault: the membership agent is not consulted, the smaller hash is always taken
Weighted_Min(forward, reverse, bloomfilter) == IF reverse < forward THEN reverse ELSE forward

\* fault: the larger hash is always taken
Weighted_Max(forward, reverse, bloomfilter) == IF forward < reverse THEN reverse ELSE forward

\* the lambda zipped over both strands
Weighted(forward, reverse, bloomfilter) ==
    IF forward \in bloomfilter \/ reverse \in bloomfilter
    THEN (IF forward < reverse THEN reverse ELSE forward)
    ELSE (IF reverse < forward THEN reverse ELSE forward)

Both(forward_strand, reverse_strand, bloomfilter) ==
    [i \in 1..Len(forward_strand) |->
        Weighted(forward_strand[i], reverse_strand[i], bloomfilter)]

\* fault: a shape as large as the window is rejected as well
ShapeTooBig_OrEqual(shape_size, window_size) == shape_size >= window_size

ShapeTooBig(shape_size, window_size) == shape_size > window_size

WeightedCalls ==
    {[fn |-> "weighted_minimiser_hash",
      forward_strand |-> f, reverse_strand |-> r, bloomfilter |-> b,
      shape_size |-> k, window_size |-> ws] :
        f \in SeqsUpTo(0..MaxHash, MaxStrandLen),
        r \in SeqsUpTo(0..MaxHash, MaxStrandLen),
        b \in {x \in SUBSET (0..MaxHash) : Cardinality(x) <= MaxFlagged},
        k \in 1..MaxShape,
        ws \in 0..MaxWindowSize}

InitWeighted ==
    /\ call \in {c \in WeightedCalls : Len(c.forward_strand) = Len(c.reverse_strand)}
                \cup {PolyACall, Text3Call, FlaggedSmallerCall}
    /\ view = NoView
    /\ it = NoIterator
    /\ pc = "call"
    /\ out = <<>>
    /\ out_pos = <<>>
    /\ min_pos = 0
    /\ shifts = 0
    /\ tmp = NoCopy

(* weighted_minimiser_hash_fn::operator(): the shape is larger than the window *)
WeightedThrow ==
    /\ pc = "call"
    /\ ShapeTooBig(call.shape_size, call.window_size)
    /\ pc' = "thrown"
    /\ UNCHANGED <<call, view, it, out, out_pos, min_pos, shifts, tmp>>

(* weighted_minimiser_hash_fn::operator(): minimiser_view(both, window_size - shape.size() + 1) *)
WeightedView ==
    /\ pc = "call"
    /\ ~ShapeTooBig(call.shape_size, call.window_size)
    /\ view' = [urange |-> Both(call.forward_strand, call.reverse_strand, call.bloomfilter),
                window_values_size |-> call.window_size - call.shape_size + 1]
    /\ pc' = "view"
    /\ UNCHANGED <<call, it, out, out_pos, min_pos, shifts, tmp>>

NextWeighted ==
    \/ WeightedThrow
    \/ WeightedView
    \/ Begin
    \/ Deref
    \/ Shift
    \/ AtEnd

SpecWeighted == InitWeighted /\ [][NextWeighted]_vars

----------------------------------------------------------------------------
(* Vocabulary of the properties, stated on the input alone *)

\* the input handed to the view and the number of hashes n
Input == call.urange
N == Len(Input)

\* the requested and the effective (clamped) number of values per window
W == call.window_values_size
EffW == IF W > N THEN N ELSE W

\* m_i: the minimum of h_i .. h_{i+w-1}
WindowMin(u, i, w) ==
    CHOOSE m \in {u[j + 1] : j \in i..(i + w - 1)} :
        \A j \in i..(i + w - 1) : m <= u[j + 1]

\* the iterator exists and is primed (begin() returned, no undefined behaviour)
Primed == pc \in {"iter", "read", "inc", "done"} /\ N > 0

\* the iterator is primed and not at the sentinel
Active == Primed /\ it.window_right < N

\* start index of the window that ends at the upstream cursor
WindowStart == it.window_right - EffW + 1

----------------------------------------------------------------------------
(* C1: single-stream minimiser, 2 <= w <= n.  begin() yields m_0; a window
   shift i -> i+1 emits exactly when the element leaving the window, h_i,
   equals the cached minimum (the minimum of the new window is then emitted)
   or the arriving element h_{i+w} is strictly smaller than the cached
   minimum (it is then emitted); every other shift emits nothing and keeps
   the cached minimum.  [28,100,9,23,4,1,72,37,8] with w = 4 gives [9,4,1]
   and [6,27,44,50,9] with w = 4 gives [6,9]. *)
C1_InRange == W >= 2 /\ W <= N

C1_Begin ==
    (C1_InRange /\ pc = "iter" /\ shifts = 0 /\ out = <<>>)
        => (it.window_right = W - 1 /\ it.minimiser_value = WindowMin(Input, 0, W))

C1_Scenarios ==
    (pc = "done" /\ W = 4)
        => /\ (Input = DocHashes => out = <<9, 4, 1>>)
           /\ (Input = SnippetHashes => out = <<6, 9>>)

C1_Shift ==
    (C1_InRange /\ pc \in {"read", "inc"} /\ it.window_right + 1 < N)
        => LET i == it.window_right - W + 1
               leaving == Input[i + 1]
               arriving == Input[i + W + 1]
               cached == it.minimiser_value
               emits == pc' = "iter"
           IN  /\ emits <=> (leaving = cached \/ arriving < cached)
               /\ leaving = cached => it'.minimiser_value = WindowMin(Input, i + 1, W)
               /\ (leaving # cached /\ arriving < cached) => it'.minimiser_value = arriving
               /\ ~emits => it'.minimiser_value = cached

\* C1: begin() yields m_0, the documented examples give the documented outputs, and a shift
\* emits exactly when the minimum leaves the window or a strictly smaller value arrives
C1_EmissionRule == [](C1_Begin /\ C1_Scenarios) /\ [][C1_Shift]_vars

\* the documentation's example ran to the end, through shifts that emit and shifts that do not
C1_Witness ==
    /\ pc = "done" /\ Input = DocHashes /\ W = 4
    /\ out = <<9, 4, 1>> /\ shifts = 5

----------------------------------------------------------------------------
(* C2: window-minimum correctness.  Whenever the iterator is primed and not
   at the sentinel, the cached minimiser_value is the minimum of the window
   buffer and the minimum of the w consecutive input values that end at the
   upstream cursor; the value the consumer has just read is that minimum. *)
SeqMin(s) == CHOOSE m \in {s[k] : k \in 1..Len(s)} : \A k \in 1..Len(s) : m <= s[k]

C2_WindowMinimum ==
    Active =>
        /\ it.window_values # <<>>
        /\ it.minimiser_value = SeqMin(it.window_values)
        /\ WindowStart >= 0
        /\ it.minimiser_value = WindowMin(Input, WindowStart, EffW)
        /\ pc = "read" => out[Len(out)] = WindowMin(Input, WindowStart, EffW)

\* a value read after the window moved several times, at least once without a new minimiser
C2_Witness ==
    /\ Active /\ pc = "read" /\ EffW >= 2
    /\ Len(out) >= 2 /\ shifts > Len(out)

----------------------------------------------------------------------------
(* C3: dedup invariant as claimed: any two consecutive values of the output
   are distinct (a minimiser that is the same in consecutive windows is
   returned only once).  Stated for views::minimiser with windows of at
   least two values, where consecutive windows overlap. *)
C3_ConsecutiveDistinct ==
    (call.fn = "minimiser" /\ W >= 2)
        => \A k \in 1..(Len(out) - 1) : out[k] # out[k + 1]

----------------------------------------------------------------------------
(* C4: on an input of n identical values with a window of w <= n values the
   minimiser emits at every window shift, n-w+1 values in all (seventeen
   zeros, w = 4: fourteen zeros); in general a shift whose leaving element
   equals the cached minimum always emits, also when the recomputed minimum
   is the same value. *)
AllEqual(u) == \A a, b \in 1..Len(u) : u[a] = u[b]

C4_Count ==
    (pc = "done" /\ AllEqual(Input) /\ W >= 1 /\ W <= N)
        => /\ Len(out) = N - W + 1
           /\ \A k \in 1..Len(out) : out[k] = Input[1]
           /\ (Input = SeventeenZeros /\ W = 4) => out = Zeros(14)

C4_Shift ==
    (Active /\ pc \in {"read", "inc"} /\ it.window_right + 1 < N
        /\ Input[WindowStart + 1] = it.minimiser_value)
        => pc' = "iter"

\* C4: n equal values give n-w+1 values, and a shift whose leaving element equals the
\* cached minimum always emits
C4_EmitsWhenMinimumLeaves == []C4_Count /\ [][C4_Shift]_vars

C4_Witness ==
    /\ pc = "done" /\ Input = SeventeenZeros /\ W = 4
    /\ out = Zeros(14) /\ shifts = 13

----------------------------------------------------------------------------
(* C5: when all combined hashes are equal, weighted_minimiser_hash re-emits
   the shared minimiser only when the chosen occurrence leaves the window,
   not at every shift: 19 A's, ungapped shape of 4, window_size 8 (16 equal
   hashes, 5 values per window, 12 windows) give exactly 3 values.  Checked
   under SpecWeighted. *)
C5_Combined == view.urange
C5_Windows == Len(C5_Combined) - view.window_values_size + 1

\* C5: equal combined hashes are not re-emitted at every shift; the 19 A's give 3 values
C5_NotAtEveryShift ==
    (pc = "done" /\ AllEqual(C5_Combined))
        => /\ call = PolyACall => out = <<0, 0, 0>>
           /\ (view.window_values_size >= 2 /\ C5_Windows >= 2) => Len(out) < C5_Windows

----------------------------------------------------------------------------
(* C6: the output is a subsequence of the input: every value read is the
   input element at the position it was cached from, those positions are
   strictly increasing, and each lies in the window its value was emitted
   for, so the output follows the order of the windows. *)
RECURSIVE IsSubsequence(_, _)
IsSubsequence(s, u) ==
    IF s = <<>> THEN TRUE
    ELSE IF u = <<>> THEN FALSE
    ELSE IF Head(s) = Head(u) THEN IsSubsequence(Tail(s), Tail(u))
    ELSE IsSubsequence(s, Tail(u))

\* C6: the values read are input elements taken from strictly increasing positions
C6_Subsequence ==
    (pc \in {"iter", "read", "inc", "done"})
        => /\ Len(out_pos) = Len(out)
           /\ \A k \in 1..Len(out) :
                  /\ out_pos[k] \in 0..(N - 1)
                  /\ Input[out_pos[k] + 1] = out[k]
           /\ \A k \in 1..(Len(out) - 1) : out_pos[k] < out_pos[k + 1]
           /\ (pc = "read" /\ Len(out) > 0)
                  => out_pos[Len(out)] \in WindowStart..it.window_right
           /\ IsSubsequence(out, Input)

C6_Witness ==
    /\ pc = "done" /\ W >= 2 /\ W < N
    /\ Len(out) >= 3 /\ shifts > Len(out)

----------------------------------------------------------------------------
(* C7: length bound.  With 1 <= w <= n the minimiser emits at most n-w+1
   values, never more than one per window examined, and at least one value
   when n >= 1. *)
\* C7: at most one value per window, between 1 and n-w+1 values in all
C7_LengthBound ==
    /\ Primed => Len(out) <= shifts + 1
    /\ (pc = "done" /\ W >= 1 /\ W <= N)
          => /\ Len(out) <= N - W + 1
             /\ Len(out) >= 1
             /\ shifts = N - W

\* a finished run over at least three windows that emitted for only two of them
C7_Witness ==
    /\ pc = "done" /\ W >= 2 /\ N - W + 1 >= 3
    /\ Len(out) = 2

----------------------------------------------------------------------------
(* C8: an input of n values, 1 <= n < w.  The window is clamped to n when
   the iterator is constructed: priming loads the whole input without
   reading past its end, exactly one value is emitted, the minimum of the
   whole input, and after it the iterator equals end. *)
C8_ShortInput ==
    (W > N /\ N >= 1)
        => /\ pc # "ub"
           /\ pc # "inc"
           /\ pc \in {"iter", "read", "done"} => Len(it.window_values) = N
           /\ (pc = "iter" /\ out = <<>>)
                 => /\ it.window_right = N - 1
                    /\ it.minimiser_value = WindowMin(Input, 0, N)
           /\ (pc = "iter" /\ out # <<>>) => it.window_right = N
           /\ pc = "done"
                 => /\ out = <<WindowMin(Input, 0, N)>>
                    /\ it.window_right = N
                    /\ shifts = 0

C8_Witness ==
    /\ pc = "done" /\ W > N /\ N >= 2
    /\ Len(out) = 1 /\ Len(it.window_values) = N

----------------------------------------------------------------------------
(* C9: views::minimiser called with a window of exactly one value fails
   with std::invalid_argument: the call can only end in the throw, and no
   view and no iterator is ever constructed. *)
C9_Call == call.fn = "minimiser" /\ W = 1

C9_NoView ==
    C9_Call
        => /\ pc \in {"call", "thrown"}
           /\ view = NoView
           /\ it = NoIterator
           /\ out = <<>>

C9_Throws == (C9_Call /\ pc = "call") => pc' = "thrown"

\* C9: a call with w = 1 never constructs a view and its only step is the throw
C9_WindowOfOneRejected == []C9_NoView /\ [][C9_Throws]_vars

C9_Witness == C9_Call /\ pc = "thrown" /\ N >= 2

----------------------------------------------------------------------------
(* C10: views::minimiser validates w >= 2: every window size below 2,
   0 included, is rejected with std::invalid_argument before a view is
   constructed, so priming never runs with a window size whose w - 1 wraps
   around in uint32_t. *)
C10_BelowTwoRejected ==
    (call.fn = "minimiser" /\ W < 2 /\ N >= 1)
        => /\ pc \in {"call", "thrown"}
           /\ view = NoView
           /\ pc # "ub"

----------------------------------------------------------------------------
(* Dual-stream minimiser: views::minimiser(window_values_size, urange2).
   call and view carry the second range, the iterator the second cursor
   window_right2. *)

MaxLenTwo == 3
MaxValTwo == 1

\* the hashes of the snippet and of the documentation of views::minimiser
SnippetHashes2 == <<27, 6, 49, 28, 39>>
DocHashes2 == <<30, 2, 11, 101, 199, 73, 34, 900>>

InputsTwo == SeqsUpTo(0..MaxValTwo, MaxLenTwo)

CallsTwo ==
    {[fn |-> "minimiser", urange |-> u, urange2 |-> u2, window_values_size |-> w] :
        u \in InputsTwo, u2 \in InputsTwo, w \in 0..(MaxLenTwo + 1)}
    \cup {[fn |-> "minimiser", urange |-> SnippetHashes, urange2 |-> SnippetHashes2,
           window_values_size |-> 4],
          [fn |-> "minimiser", urange |-> DocHashes, urange2 |-> DocHashes2,
           window_values_size |-> 4]}

NoViewTwo == [urange |-> <<>>, urange2 |-> <<>>, window_values_size |-> 0]

NoIteratorTwo ==
    [minimiser_value |-> 0, window_right |-> 0, window_right2 |-> 0, window_values |-> <<>>]

\* fault: the second range is ignored
NewValueTwo_FirstOnly(first, second) == first

\* new_value = *window_right; if (*window_right2 < new_value) new_value = *window_right2;
NewValueTwo(first, second) == IF second < first THEN second ELSE first

\* fault: ranges of different sizes are accepted
SizesDiffer_Never(urange, urange2) == FALSE

\* std::ranges::size(urange) != std::ranges::size(urange2)
SizesDiffer(urange, urange2) == Len(urange) # Len(urange2)

(* window_first_two: entered at the read of both cursors.  Dereferencing a
   cursor at the end of its range is undefined: ub is TRUE. *)
RECURSIVE WindowFirstTwoLoop(_, _, _, _, _, _)
WindowFirstTwoLoop(urange, urange2, i, bound, window_right, window_values) ==
    IF window_right >= Len(urange) \/ window_right >= Len(urange2)
    THEN [ub |-> TRUE, window_right |-> window_right, window_values |-> window_values]
    ELSE LET new_value == NewValueTwo(urange[window_right + 1], urange2[window_right + 1])
         IN  IF U32Less(i, bound)
             THEN WindowFirstTwoLoop(urange, urange2, i + 1, bound, window_right + 1,
                                     Append(window_values, new_value))
             ELSE [ub |-> FALSE, window_right |-> window_right,
                   window_values |-> Append(window_values, new_value)]

WindowFirstTwo(urange, urange2, window_values_size) ==
    LET r == WindowFirstTwoLoop(urange, urange2, 0, U32Dec(window_values_size), 0, <<>>)
    IN  IF r.ub
        THEN [ub |-> TRUE, pos |-> 0,
              it |-> [minimiser_value |-> 0, window_right |-> r.window_right,
                      window_right2 |-> r.window_right,
                      window_values |-> r.window_values]]
        ELSE LET m == MinElement(r.window_values)
             IN  [ub |-> FALSE,
                  pos |-> r.window_right - Len(r.window_values) + m,
                  it |-> [minimiser_value |-> r.window_values[m],
                          window_right |-> r.window_right,
                          window_right2 |-> r.window_right,
                          window_values |-> r.window_values]]

(* window_iterator(it_start, it_end, it_start2, window_values_size): the
   clamp and the emptiness test look at the first range only *)
WindowIteratorTwo(urange, urange2, window_values_size) ==
    LET w == ClampWindow(window_values_size, Len(urange))
    IN  IF 0 # Len(urange)
        THEN WindowFirstTwo(urange, urange2, w)
        ELSE [ub |-> FALSE, pos |-> 0, it |-> NoIteratorTwo]

(* next_minimiser_two; behind the adaptor both ranges have the same size, so
   window_right2 is dereferenceable whenever window_right is *)
NextMinimiserTwo(urange, urange2, i, old_pos) ==
    LET window_right == i.window_right + 1
        window_right2 == i.window_right2 + 1
        moved == [i EXCEPT !.window_right = window_right, !.window_right2 = window_right2]
    IN  IF window_right = Len(urange)
        THEN [ret |-> TRUE, pos |-> old_pos, it |-> moved]
        ELSE LET new_value == NewValueTwo(urange[window_right + 1], urange2[window_right2 + 1])
                 shifted == Append(Tail(i.window_values), new_value)
             IN  IF MinimiserLeaves(i.minimiser_value, Head(i.window_values))
                 THEN LET m == MinElement(shifted)
                      IN  [ret |-> TRUE,
                           pos |-> window_right - Len(shifted) + m,
                           it |-> [moved EXCEPT !.minimiser_value = shifted[m],
                                                !.window_values = shifted]]
                 ELSE IF NewValueSmaller(new_value, i.minimiser_value)
                      THEN [ret |-> TRUE, pos |-> window_right,
                            it |-> [moved EXCEPT !.minimiser_value = new_value,
                                                 !.window_values = shifted]]
                      ELSE [ret |-> FALSE, pos |-> old_pos,
                            it |-> [moved EXCEPT !.window_values = shifted]]

InitTwo ==
    /\ call \in CallsTwo
    /\ view = NoViewTwo
    /\ it = NoIteratorTwo
    /\ pc = "call"
    /\ out = <<>>
    /\ out_pos = <<>>
    /\ min_pos = 0
    /\ shifts = 0
    /\ tmp = NoCopy

(* minimiser_fn::operator()(urange, w, urange2): the sizes differ *)
MinimiserTwoThrow ==
    /\ pc = "call"
    /\ SizesDiffer(call.urange, call.urange2)
    /\ pc' = "thrown"
    /\ UNCHANGED <<call, view, it, out, out_pos, min_pos, shifts, tmp>>

(* minimiser_fn::operator()(urange, w, urange2): minimiser_view{urange, urange2, w} *)
MinimiserTwoView ==
    /\ pc = "call"
    /\ ~SizesDiffer(call.urange, call.urange2)
    /\ view' = [urange |-> call.urange, urange2 |-> call.urange2,
                window_values_size |-> call.window_values_size]
    /\ pc' = "view"
    /\ UNCHANGED <<call, it, out, out_pos, min_pos, shifts, tmp>>

(* minimiser_view::begin() with a second range *)
BeginTwo ==
    /\ pc = "view"
    /\ LET r == WindowIteratorTwo(view.urange, view.urange2, view.window_values_size)
       IN  IF r.ub
           THEN \* a cursor is dereferenced at its sentinel: the value read is arbitrary
                \E garbage \in 0..MaxValTwo :
                    /\ it' = [r.it EXCEPT !.window_values = Append(@, garbage)]
                    /\ min_pos' = r.pos
                    /\ pc' = "ub"
           ELSE /\ it' = r.it
                /\ min_pos' = r.pos
                /\ pc' = "iter"
    /\ UNCHANGED <<call, view, out, out_pos, shifts, tmp>>

(* operator++ / get_minimiser: one call of next_minimiser_two in the while loop *)
ShiftTwo ==
    /\ pc \in {"read", "inc"}
    /\ LET r == NextMinimiserTwo(view.urange, view.urange2, it, min_pos)
       IN  /\ it' = r.it
           /\ min_pos' = r.pos
           /\ pc' = IF r.ret THEN "iter" ELSE "inc"
           /\ shifts' = IF r.it.window_right = Len(view.urange) THEN shifts ELSE shifts + 1
    /\ UNCHANGED <<call, view, out, out_pos, tmp>>

NextTwo ==
    \/ MinimiserTwoThrow
    \/ MinimiserTwoView
    \/ BeginTwo
    \/ Deref
    \/ ShiftTwo
    \/ AtEnd

SpecTwo == InitTwo /\ [][NextTwo]_vars

----------------------------------------------------------------------------
(* The consumer loop as a function of the view: the values read by
       for (auto it = view.begin(); it != view.end(); ++it) out += *it;
   for a view whose begin() has no undefined behaviour. *)

\* operator++ of the single-stream iterator: while (!next_minimiser()) {}
RECURSIVE GetMinimiser(_, _)
GetMinimiser(urange, i) ==
    LET r == NextMinimiser(urange, i, 0)
    IN  IF r.ret THEN r.it ELSE GetMinimiser(urange, r.it)

RECURSIVE Consume(_, _, _)
Consume(urange, i, values) ==
    IF i.window_right = Len(urange) THEN values
    ELSE Consume(urange, GetMinimiser(urange, i), Append(values, i.minimiser_value))

MinimiserOutput(urange, window_values_size) ==
    Consume(urange, WindowIterator(urange, window_values_size).it, <<>>)

\* operator++ of the dual-stream iterator: while (!next_minimiser_two()) {}
RECURSIVE GetMinimiserTwo(_, _, _)
GetMinimiserTwo(urange, urange2, i) ==
    LET r == NextMinimiserTwo(urange, urange2, i, 0)
    IN  IF r.ret THEN r.it ELSE GetMinimiserTwo(urange, urange2, r.it)

RECURSIVE ConsumeTwo(_, _, _, _)
ConsumeTwo(urange, urange2, i, values) ==
    IF i.window_right = Len(urange) THEN values
    ELSE ConsumeTwo(urange, urange2, GetMinimiserTwo(urange, urange2, i),
                    Append(values, i.minimiser_value))

MinimiserTwoOutput(urange, urange2, window_values_size) ==
    ConsumeTwo(urange, urange2, WindowIteratorTwo(urange, urange2, window_values_size).it, <<>>)

----------------------------------------------------------------------------
(* C11: for two ranges of the same length and every window size for which
   begin() is defined, the values read from the dual-stream minimiser are
   the values read from the single-stream minimiser_view over the
   element-wise minimum min(U1[i], U2[i]): every value read so far is the
   next value of that output, and a finished run has read all of it.
   [6,27,44,50,9] and [27,6,49,28,39] with w = 4 give [6,6]. *)
ElementwiseMin(u, u2) == [i \in 1..Len(u) |-> IF u[i] <= u2[i] THEN u[i] ELSE u2[i]]

IsPrefix(s, t) == Len(s) <= Len(t) /\ \A k \in 1..Len(s) : s[k] = t[k]

\* C11: the dual-stream output is the single-stream output over the element-wise minimum
C11_DualIsSingleOverMin ==
    (pc \in {"iter", "read", "inc", "done"})
        => LET expected == MinimiserOutput(ElementwiseMin(call.urange, call.urange2), W)
           IN  /\ IsPrefix(out, expected)
               /\ pc = "done" => out = expected
               /\ (pc = "done" /\ call.urange = SnippetHashes) => out = <<6, 6>>

\* the snippet ran to the end: the first 6 is read from the first range, the second from the second
C11_Witness ==
    /\ pc = "done"
    /\ call.urange = SnippetHashes /\ call.urange2 = SnippetHashes2 /\ W = 4
    /\ out = <<6, 6>> /\ out_pos = <<0, 1>>

----------------------------------------------------------------------------
(* C12: dual-stream commutativity.  For two ranges of the same length and
   every window size for which begin() is defined, the values read from the
   minimiser of (U1, U2) are, element by element, the values read from the
   minimiser of (U2, U1). *)
C12_Commutative ==
    (pc \in {"iter", "read", "inc", "done"})
        => LET swapped == MinimiserTwoOutput(call.urange2, call.urange, W)
           IN  /\ IsPrefix(out, swapped)
               /\ pc = "done" => out = swapped

\* a finished run over two different ranges in which both ranges supplied a value read
C12_Witness ==
    /\ pc = "done"
    /\ Len(call.urange) = 3 /\ W = 2
    /\ call.urange # call.urange2
    /\ Len(out) = 2
    /\ \E k \in 1..2 : out[k] # call.urange[out_pos[k] + 1]
    /\ \E k \in 1..2 : out[k] # call.urange2[out_pos[k] + 1]

----------------------------------------------------------------------------
(* C13: views::minimiser(w, urange2) fails with std::invalid_argument
   whenever the two ranges have different sizes: the call can only end in
   the throw and no view and no iterator is constructed.  With equal sizes
   the call never throws, whatever the window size: its only step returns
   the view over both ranges. *)
C13_NoView ==
    SizesDiffer(call.urange, call.urange2)
        => /\ pc \in {"call", "thrown"}
           /\ view = NoViewTwo
           /\ it = NoIteratorTwo
           /\ out = <<>>

C13_NoThrow == Len(call.urange) = Len(call.urange2) => pc # "thrown"

C13_Call ==
    pc = "call"
        => IF Len(call.urange) # Len(call.urange2)
           THEN pc' = "thrown" /\ view' = NoViewTwo
           ELSE /\ pc' = "view"
                /\ view' = [urange |-> call.urange, urange2 |-> call.urange2,
                            window_values_size |-> W]

\* C13: the adaptor throws exactly when the sizes differ and then constructs no view
C13_SizesChecked == [](C13_NoView /\ C13_NoThrow) /\ [][C13_Call]_vars

C13_Witness ==
    /\ pc = "thrown"
    /\ Len(call.urange) = 3 /\ Len(call.urange2) = 2
    /\ view = NoViewTwo

----------------------------------------------------------------------------
(* C14: the example of the documentation of views::minimiser: the minimiser
   over [28,100,9,23,4,1,72,37,8] and [30,2,11,101,199,73,34,900] with 4
   values per window runs to the end and yields [2,4,1]. *)
C14_DocExample ==
    (/\ call.urange = DocHashes /\ call.urange2 = DocHashes2 /\ W = 4
     /\ pc \in {"thrown", "ub", "done"})
        => pc = "done" /\ out = <<2, 4, 1>>

----------------------------------------------------------------------------
(* seqan3::views::syncmer (include/seqan3/range/views/syncmer.hpp).
   urange1 is the stream of k-mer hashes, urange2 the stream of s-mer
   hashes, window_size the number w of shifts of an s-mer inside a k-mer.
   A run is syncmer_fn::operator()(urange1, urange2, window_size) followed
   by the consumer loop.  Cursors are 0-based indices; a cursor equal to the
   length of its range is at the end of the range.  min_pos is the index in
   urange1 the cached syncmer_value was read from, -1 while it still has the
   value of its initialiser. *)

MaxKmers == 2
MaxKmer == 1
MaxSmers == 4
MaxSmer == 2
MaxSyncmerWindow == 2

\* unit test, text3 = ACGGCGACGTTTAG: the 5-mer and the 3-mer hashes
Text3Kmers == <<105, 422, 664, 609, 390, 539, 111, 447, 764, 1010>>
Text3Smers == <<6, 26, 41, 38, 24, 33, 6, 27, 47, 63, 60, 50>>

\* the calls of TEST_F(syncmer_test, ungapped_kmer_hash); their last argument, 0,
\* has no parameter in syncmer_fn::operator()
SyncmerTestCalls ==
    {[fn |-> "syncmer", urange1 |-> Zeros(15), urange2 |-> Zeros(17), window_size |-> 2],
     [fn |-> "syncmer", urange1 |-> Zeros(2), urange2 |-> Zeros(17), window_size |-> 2],
     [fn |-> "syncmer", urange1 |-> <<>>, urange2 |-> <<>>, window_size |-> 2],
     [fn |-> "syncmer", urange1 |-> Text3Kmers, urange2 |-> Text3Smers, window_size |-> 2]}

SyncmerCalls ==
    {[fn |-> "syncmer", urange1 |-> u1, urange2 |-> u2, window_size |-> w] :
        u1 \in SeqsUpTo(0..MaxKmer, MaxKmers),
        u2 \in SeqsUpTo(0..MaxSmer, MaxSmers),
        w \in 0..MaxSyncmerWindow}
    \cup SyncmerTestCalls

NoSyncmerView == [urange1 |-> <<>>, urange2 |-> <<>>, window_size |-> 0]

\* the data members of basic_iterator with their default member initialisers
NoBasicIterator ==
    [syncmer_value |-> 0, smer_value |-> 0,
     urng1_iterator |-> 0, urng2_iterator |-> 0, smer_values |-> <<>>]

(* std::ranges::min_element(smer_values, std::less_equal{}): the candidate is
   replaced whenever the next element is less than or equal to it, which
   leaves the index (1-based in the deque) of the rightmost minimum *)
RECURSIVE MinElementLessEqualFrom(_, _, _)
MinElementLessEqualFrom(s, i, best) ==
    IF i > Len(s) THEN best
    ELSE MinElementLessEqualFrom(s, i + 1, IF s[i] <= s[best] THEN i ELSE best)

MinElementLessEqual(s) == MinElementLessEqualFrom(s, 2, 1)

\* fault: an s-mer at the front of the window is never taken for the smallest
SmerAtFront_Never(smer_value, front) == FALSE

\* smer_value == smer_values[0]
SmerAtFront(smer_value, front) == smer_value = front

\* fault: the k-mer of the first window is always taken
SmerAtEndpoint_Always(smer_value, smer_values, window_size) == TRUE

\* (smer_value == smer_values[0]) || (smer_value == smer_values[window_size])
SmerAtEndpoint(smer_value, smer_values, window_size) ==
    smer_value = smer_values[1] \/ smer_value = smer_values[window_size + 1]

(* window_first: the loop and the last push_back.  Dereferencing
   urng2_iterator at the end of urange2 is undefined: ub is TRUE. *)
RECURSIVE SyncmerWindowFirstLoop(_, _, _, _, _)
SyncmerWindowFirstLoop(urange2, i, window_size, urng2_iterator, smer_values) ==
    IF urng2_iterator >= Len(urange2)
    THEN [ub |-> TRUE, urng2_iterator |-> urng2_iterator, smer_values |-> smer_values]
    ELSE IF i < window_size
         THEN SyncmerWindowFirstLoop(urange2, i + 1, window_size, urng2_iterator + 1,
                                     Append(smer_values, urange2[urng2_iterator + 1]))
         ELSE [ub |-> FALSE, urng2_iterator |-> urng2_iterator,
               smer_values |-> Append(smer_values, urange2[urng2_iterator + 1])]

(* basic_iterator(urng1_iterator, urng1_sentinel, urng2_iterator, window_size):
   window_first is called whatever the ranges hold.  *urng1_iterator at the
   end of urange1 is undefined as well. *)
BasicIterator(urange1, urange2, window_size) ==
    LET r == SyncmerWindowFirstLoop(urange2, 0, window_size, 0, <<>>)
        primed == [NoBasicIterator EXCEPT !.urng2_iterator = r.urng2_iterator,
                                          !.smer_values = r.smer_values]
    IN  IF r.ub
        THEN [ub |-> TRUE, pos |-> -1, it |-> primed]
        ELSE LET smer_value == r.smer_values[MinElementLessEqual(r.smer_values)]
                 found == [primed EXCEPT !.smer_value = smer_value]
             IN  IF SmerAtEndpoint(smer_value, r.smer_values, window_size)
                 THEN IF 0 >= Len(urange1)
                      THEN [ub |-> TRUE, pos |-> -1, it |-> found]
                      ELSE [ub |-> FALSE, pos |-> 0,
                            it |-> [found EXCEPT !.syncmer_value = urange1[1]]]
                 ELSE [ub |-> FALSE, pos |-> -1, it |-> found]

\* fault: the oldest s-mer stays in the deque
PopFront_Keep(smer_values) == smer_values

\* smer_values.pop_front()
PopFront(smer_values) == Tail(smer_values)

(* next_syncmer: ret is the returned bool, pos the index of the k-mer the
   cached syncmer_value was read from.  Undefined: smer_values[0] of an
   empty deque, min_element of a deque that pop_front emptied, and
   *urng2_iterator at the end of urange2. *)
NextSyncmer(urange1, urange2, i, old_pos) ==
    LET urng1_iterator == i.urng1_iterator + 1
        urng2_iterator == i.urng2_iterator + 1
        moved == [i EXCEPT !.urng1_iterator = urng1_iterator,
                           !.urng2_iterator = urng2_iterator]
    IN  IF urng1_iterator = Len(urange1)
        THEN [ret |-> TRUE, ub |-> FALSE, pos |-> old_pos, it |-> moved]
        ELSE IF i.smer_values = <<>>
        THEN [ret |-> TRUE, ub |-> TRUE, pos |-> old_pos, it |-> moved]
        ELSE LET at_front == SmerAtFront(i.smer_value, Head(i.smer_values))
                 popped == PopFront(i.smer_values)
             IN  IF (at_front /\ popped = <<>>) \/ urng2_iterator >= Len(urange2)
                 THEN [ret |-> TRUE, ub |-> TRUE, pos |-> old_pos,
                       it |-> [moved EXCEPT !.smer_values = popped]]
                 ELSE LET smer_value == IF at_front
                                        THEN popped[MinElementLessEqual(popped)]
                                        ELSE i.smer_value
                          new_smer_value == urange2[urng2_iterator + 1]
                          smer_values == Append(popped, new_smer_value)
                          shifted == [moved EXCEPT !.smer_values = smer_values]
                      IN  IF new_smer_value < smer_value
                          THEN [ret |-> TRUE, ub |-> FALSE, pos |-> urng1_iterator,
                                it |-> [shifted EXCEPT
                                           !.syncmer_value = urange1[urng1_iterator + 1],
                                           !.smer_value = new_smer_value]]
                          ELSE IF SmerAtFront(smer_value, smer_values[1])
                               THEN [ret |-> TRUE, ub |-> FALSE, pos |-> urng1_iterator,
                                     it |-> [shifted EXCEPT
                                                !.syncmer_value = urange1[urng1_iterator + 1],
                                                !.smer_value = smer_values[1]]]
                               ELSE [ret |-> FALSE, ub |-> FALSE, pos |-> old_pos,
                                     it |-> [shifted EXCEPT !.smer_value = smer_value]]

InitSyncmer ==
    /\ call \in SyncmerCalls
    /\ view = NoSyncmerView
    /\ it = NoBasicIterator
    /\ pc = "call"
    /\ out = <<>>
    /\ out_pos = <<>>
    /\ min_pos = -1
    /\ shifts = 0
    /\ tmp = NoCopy

(* syncmer_fn::operator(): syncmer_view{urange1, urange2, window_size} *)
SyncmerView ==
    /\ pc = "call"
    /\ view' = [urange1 |-> call.urange1, urange2 |-> call.urange2,
                window_size |-> call.window_size]
    /\ pc' = "view"
    /\ UNCHANGED <<call, it, out, out_pos, min_pos, shifts, tmp>>

(* syncmer_view::begin() *)
SyncmerBegin ==
    /\ pc = "view"
    /\ LET r == BasicIterator(view.urange1, view.urange2, view.window_size)
       IN  IF r.ub
           THEN \* a cursor is dereferenced at the end of its range: the value read is arbitrary
                \E garbage \in 0..MaxSmer :
                    /\ it' = [r.it EXCEPT !.smer_values = Append(@, garbage)]
                    /\ min_pos' = r.pos
                    /\ pc' = "ub"
           ELSE /\ it' = r.it
                /\ min_pos' = r.pos
                /\ pc' = "iter"
    /\ UNCHANGED <<call, view, out, out_pos, shifts, tmp>>

(* consumer: it != end, then *it *)
SyncmerDeref ==
    /\ pc = "iter"
    /\ it.urng1_iterator # Len(view.urange1)
    /\ out' = Append(out, it.syncmer_value)
    /\ out_pos' = Append(out_pos, min_pos)
    /\ pc' = "read"
    /\ UNCHANGED <<call, view, it, min_pos, shifts, tmp>>

(* operator++ / next_unique_syncmer: one call of next_syncmer in the while loop *)
SyncmerShift ==
    /\ pc \in {"read", "inc"}
    /\ LET r == NextSyncmer(view.urange1, view.urange2, it, min_pos)
       IN  /\ min_pos' = r.pos
           /\ shifts' = IF r.it.urng1_iterator = Len(view.urange1) THEN shifts ELSE shifts + 1
           /\ IF r.ub
              THEN \E garbage \in 0..MaxSmer :
                       /\ it' = [r.it EXCEPT !.smer_values = Append(@, garbage)]
                       /\ pc' = "ub"
              ELSE /\ it' = r.it
                   /\ pc' = IF r.ret THEN "iter" ELSE "inc"
    /\ UNCHANGED <<call, view, out, out_pos, tmp>>

(* consumer: it == end *)
SyncmerAtEnd ==
    /\ pc = "iter"
    /\ it.urng1_iterator = Len(view.urange1)
    /\ pc' = "done"
    /\ UNCHANGED <<call, view, it, out, out_pos, min_pos, shifts, tmp>>

NextSyncmerView ==
    \/ SyncmerView
    \/ SyncmerBegin
    \/ SyncmerDeref
    \/ SyncmerShift
    \/ SyncmerAtEnd

SpecSyncmer == InitSyncmer /\ [][NextSyncmerView]_vars

----------------------------------------------------------------------------
(* Vocabulary of the syncmer properties *)

\* K, S and w of the call
Kmers == call.urange1
Smers == call.urange2
SyncmerW == call.window_size

\* the s-mer stream covers every window of the k-mer stream
WellFormed == SyncmerW >= 1 /\ Len(Smers) >= Len(Kmers) + SyncmerW

\* local index (0-based) of the rightmost minimum of (S_i, ..., S_{i+w})
RobustMinIndex(i) ==
    CHOOSE j \in 0..SyncmerW :
        /\ \A l \in 0..SyncmerW : Smers[i + j + 1] <= Smers[i + l + 1]
        /\ \A l \in (j + 1)..SyncmerW : Smers[i + j + 1] < Smers[i + l + 1]

\* the window of K_i has its robust-winnowing minimum at an endpoint
EndpointMinimum(i) == RobustMinIndex(i) \in {0, SyncmerW}

----------------------------------------------------------------------------
(* C15: syncmer emission predicate with ties.  For every window position i
   reached by ++ (1 <= i < |K|), K_i is emitted if and only if the minimum
   of (S_i, ..., S_{i+w}), the rightmost occurrence when the minimal value
   occurs several times, is at local index 0 or at local index w.  The
   position is emitted when next_syncmer returned true there (the consumer
   reads K_i next) and skipped when it returned false. *)
C15_EmissionPredicate ==
    (/\ WellFormed
     /\ pc \in {"iter", "inc"}
     /\ it.urng1_iterator >= 1 /\ it.urng1_iterator < Len(Kmers))
        => ((pc = "iter") <=> EndpointMinimum(it.urng1_iterator))

----------------------------------------------------------------------------
(* C16: syncmer priming.  K_0 is part of the output if and only if the
   minimum of (S_0, ..., S_w) is at local index 0 or w; when it is not, the
   first value read is the first later k-mer whose window qualifies, and no
   value read is the value syncmer_value was initialised with.  Stated for
   pairwise distinct s-mer hashes, where the minimum of a window has one
   occurrence only. *)
PairwiseDistinct(s) == \A a, b \in 1..Len(s) : a # b => s[a] # s[b]

C16_Priming ==
    (WellFormed /\ PairwiseDistinct(Smers) /\ Len(Kmers) >= 1 /\ out # <<>>)
        => /\ \A k \in 1..Len(out_pos) : out_pos[k] # -1
           /\ out_pos[1] = 0 <=> EndpointMinimum(0)
           /\ out_pos[1] > 0
                 => /\ EndpointMinimum(out_pos[1])
                    /\ \A i \in 0..(out_pos[1] - 1) : ~EndpointMinimum(i)

----------------------------------------------------------------------------
(* C17: if all s-mer hashes are pairwise distinct, the positions of the
   k-mers read by a finished run are exactly the positions i, 0 <= i < |K|,
   whose window (S_i, ..., S_{i+w}) has its minimum at local index 0 or w,
   in increasing order. *)
RECURSIVE EndpointPositionsFrom(_)
EndpointPositionsFrom(i) ==
    IF i >= Len(Kmers) THEN <<>>
    ELSE IF EndpointMinimum(i)
         THEN <<i>> \o EndpointPositionsFrom(i + 1)
         ELSE EndpointPositionsFrom(i + 1)

C17_DistinctSmers ==
    (WellFormed /\ PairwiseDistinct(Smers) /\ pc = "done")
        => out_pos = EndpointPositionsFrom(0)

----------------------------------------------------------------------------
(* C18: the unit test's text3: the syncmers of ACGGCGACGTTTAG with k = 5,
   s = 3 (window 2) are exactly [105,422,111,447,764], the k-mers whose
   smallest s-mer is their first one. *)
C18_Text3 ==
    (/\ Kmers = Text3Kmers /\ Smers = Text3Smers /\ SyncmerW = 2
     /\ pc \in {"ub", "done"})
        => pc = "done" /\ out = <<105, 422, 111, 447, 764>>

----------------------------------------------------------------------------
(* C19: all s-mer hashes equal, a non-empty k-mer stream, w >= 1 and an
   s-mer stream that covers every window.  Every call of next_syncmer
   emits: the values read are the k-mers in order, one per position, equal
   neighbours included, and a finished run has read the whole k-mer stream.
   19 A's with k = 5, s = 3 give 15 values; a k-mer stream of 2 values over
   the same s-mer stream gives 2 values. *)
C19_AllEqual ==
    (/\ WellFormed /\ Len(Kmers) >= 1
     /\ \A a \in 1..Len(Smers) : Smers[a] = Smers[1])
        => /\ pc \notin {"ub", "inc"}
           /\ out_pos = [k \in 1..Len(out) |-> k - 1]
           /\ IsPrefix(out, Kmers)
           /\ pc = "done" => out = Kmers
           /\ (pc = "done" /\ Smers = Zeros(17))
                 => Len(out) = (IF Kmers = Zeros(15) THEN 15 ELSE Len(Kmers))

\* the 19 A's of the unit test ran to the end: 15 equal values, one per k-mer
C19_Witness ==
    /\ pc = "done"
    /\ Kmers = Zeros(15) /\ Smers = Zeros(17) /\ SyncmerW = 2
    /\ out = Zeros(15) /\ shifts = 14

----------------------------------------------------------------------------
(* C20: for an empty k-mer stream (a text shorter than k, w = k - s >= 1)
   the output is empty, and constructing the begin iterator (priming
   included) dereferences no cursor that is at the end of its range. *)
C20_EmptyKmers ==
    (Len(Kmers) = 0 /\ SyncmerW >= 1)
        => /\ pc # "ub"
           /\ out = <<>>

----------------------------------------------------------------------------
(* Vocabulary of the weighted properties *)

\* F and R, the membership set, and the number of values per window
Forward == call.forward_strand
Reverse == call.reverse_strand
Flagged(i) == Forward[i] \in call.bloomfilter \/ Reverse[i] \in call.bloomfilter
ValuesPerWindow == call.window_size - call.shape_size + 1

\* the view was constructed
Constructed == pc \notin {"call", "thrown"}

----------------------------------------------------------------------------
(* C22: weighted combiner.  For every position i of the two strand hash
   streams the value handed to the minimiser is max(F_i, R_i) if F_i or R_i
   is in the membership set, and min(F_i, R_i) otherwise. *)
Max2(a, b) == IF a >= b THEN a ELSE b
Min2(a, b) == IF a <= b THEN a ELSE b

C22_Combiner ==
    Constructed
        => /\ Len(view.urange) = Len(Forward)
           /\ \A i \in 1..Len(Forward) :
                 view.urange[i] = IF Flagged(i)
                                  THEN Max2(Forward[i], Reverse[i])
                                  ELSE Min2(Forward[i], Reverse[i])

\* text3: position 4 (CGAC, 97) and position 8 (aaac, 1) are handed over as 182 and 191
C22_Witness ==
    /\ call = Text3Call /\ pc = "done"
    /\ view.urange = <<26, 105, 101, 152, 182, 109, 27, 6, 191, 192, 112>>

----------------------------------------------------------------------------
(* C23: with an empty membership set, the values read from
   weighted_minimiser_hash are, for every input and window size, the values
   read from the minimiser over both strands, which is the minimiser over
   the element-wise minimum of the forward and reverse-complement hashes. *)
C23_EmptySet ==
    (call.bloomfilter = {} /\ pc \in {"iter", "read", "inc", "done"})
        => LET both_strands == MinimiserTwoOutput(Forward, Reverse, ValuesPerWindow)
               combined == MinimiserOutput(ElementwiseMin(Forward, Reverse), ValuesPerWindow)
           IN  /\ both_strands = combined
               /\ IsPrefix(out, combined)
               /\ pc = "done" => out = combined

\* a finished run with an empty set that read a value of each strand
C23_Witness ==
    /\ call.bloomfilter = {} /\ pc = "done"
    /\ Len(out) >= 2
    /\ \E k \in 1..Len(out) : out[k] # Forward[out_pos[k] + 1]
    /\ \E k \in 1..Len(out) : out[k] # Reverse[out_pos[k] + 1]

----------------------------------------------------------------------------
(* C25: ACGGCGACGTTTAG with an ungapped shape of size 4, window_size 8 (5
   values per window), seed 0 and the membership set {97, 1}: from the
   forward hashes [26,105,166,152,97,134,27,111,191,252,242] and the
   reverse-complement hashes [91,150,101,217,182,109,27,6,1,192,112] the
   view yields exactly [26, 101, 27, 6]. *)
C25_Text3 ==
    (call = Text3Call /\ pc # "call")
        => /\ pc # "thrown"
           /\ IsPrefix(out, <<26, 101, 27, 6>>)
           /\ pc = "done" => out = <<26, 101, 27, 6>>

\* the run over text3 ended; the four values came from the windows' positions 0, 2, 6 and 7
C25_Witness ==
    /\ call = Text3Call /\ pc = "done"
    /\ ValuesPerWindow = 5
    /\ out_pos = <<0, 2, 6, 7>>

----------------------------------------------------------------------------
(* C26: weighted_minimiser_hash fails with invalid-argument, constructing
   nothing, exactly when the shape size is greater than the window size;
   when the call is accepted the window handed to the minimiser is
   window_size - shape size + 1, which is at least 1. *)
C26_ShapeChecked ==
    /\ pc = "thrown" <=> (pc # "call" /\ call.shape_size > call.window_size)
    /\ pc = "thrown" => (view = NoView /\ it = NoIterator /\ out = <<>>)
    /\ Constructed => /\ view.window_values_size = call.window_size - call.shape_size + 1
                      /\ view.window_values_size >= 1

\* both outcomes at the boundary are told apart by one witness each
C26_Witness ==
    /\ pc = "done"
    /\ call.shape_size = call.window_size
    /\ call.shape_size >= 1
    /\ view.window_values_size = 1
    /\ Len(out) >= 2

C26_ThrownWitness ==
    /\ pc = "thrown"
    /\ call.shape_size = call.window_size + 1

----------------------------------------------------------------------------
(* C24: in weighted_minimiser_hash a position whose k-mer or reverse
   complement is flagged by the membership set is never the source of an
   emitted value for a window unless every other position of that window is
   flagged as well. *)

\* the positions (from 0) of the window whose minimiser has just been read
WindowPositions == (it.window_right - ValuesPerWindow + 1)..it.window_right

\* a value was read for a full window
ReadForWindow == pc = "read" /\ Len(view.urange) >= ValuesPerWindow

C24_FlaggedNeverSource ==
    (ReadForWindow /\ Flagged(min_pos + 1))
        => \A i \in WindowPositions : Flagged(i + 1)

(* C24 as the code has it: a flagged position takes part with the larger of
   its two hashes.  It is the source of the value emitted for a window only
   if that larger hash is not above the value of any other position of the
   window (the smaller hash of an unflagged position, the larger of a
   flagged one), and the value emitted is then that larger hash. *)
C24_FlaggedLessLikely ==
    (ReadForWindow /\ Flagged(min_pos + 1))
        => LET larger == Max2(Forward[min_pos + 1], Reverse[min_pos + 1])
           IN  /\ out[Len(out)] = larger
               /\ \A i \in WindowPositions :
                     larger <= IF Flagged(i + 1)
                               THEN Max2(Forward[i + 1], Reverse[i + 1])
                               ELSE Min2(Forward[i + 1], Reverse[i + 1])

\* a flagged position was read although the window holds an unflagged one with larger hashes
C24_Witness ==
    /\ ReadForWindow /\ Flagged(min_pos + 1)
    /\ \E i \in WindowPositions :
          /\ ~Flagged(i + 1)
          /\ Min2(Forward[i + 1], Reverse[i + 1]) > Max2(Forward[min_pos + 1], Reverse[min_pos + 1])

----------------------------------------------------------------------------
(* C27: over an empty hash stream the minimiser's begin() equals end(): the
   output is empty, no upstream element is dereferenced and the window
   buffer stays empty. *)
C27_EmptyStream ==
    (N = 0 /\ pc \notin {"call", "thrown", "view"})
        => /\ pc \in {"iter", "done"}
           /\ it.window_right = Len(view.urange)
           /\ it.window_values = <<>>
           /\ out = <<>>
           /\ shifts = 0


\* an empty stream with a window of at least two values, iterated to its end
C27_Witness ==
    /\ N = 0 /\ W >= 2
    /\ pc = "done"
    /\ it.window_values = <<>>

----------------------------------------------------------------------------
(* C30: the minimiser iterator equals end exactly when its upstream cursor
   has reached the upstream sentinel; that happens only after every window
   0 .. n-w has been examined, and the value emitted for the final window is
   observable (has been read by the consumer) before the iterator equals
   end. *)
C30_EndAtSentinel ==
    (Primed /\ W >= 1)
        => /\ pc = "done" => it.window_right = N
           /\ pc \in {"read", "inc"} => it.window_right < N
           /\ it.window_right < N => (shifts = WindowStart /\ shifts <= N - EffW)
           /\ it.window_right = N
                => /\ shifts = N - EffW
                   /\ Len(out) >= 1
                   /\ out[Len(out)] = WindowMin(Input, N - EffW, EffW)


\* the run ended after three shifts, the last of which emitted the final window's value
C30_Witness ==
    /\ pc = "done" /\ W >= 2
    /\ shifts = 3 /\ N = W + 3
    /\ Len(out) >= 2
    /\ out_pos[Len(out_pos)] = N - 1

----------------------------------------------------------------------------
(* syncmer_reverse_hash: the adaptor in front of syncmer_view.  The k-mer and
   s-mer hashes of a text of text_size letters are the adaptor's inputs to
   the view; their lengths follow from the sizes of the two shapes.  The
   parameter the source names window_size is the shape of the s-mers.  The
   call at the end also passes reverse_smers, for which syncmer_view has no
   parameter; the view is built from combined_strand and smers. *)

MaxTextSize == 3
MaxShapeSize == 2
MaxStrandHash == 1

\* number of hashes kmer_hash yields over text_size letters with a shape of shape_size
HashCount(text_size, shape_size) ==
    IF text_size >= shape_size THEN text_size - shape_size + 1 ELSE 0

SyncmerHashCalls ==
    UNION {
        {[fn |-> "syncmer_reverse_hash", text_size |-> n, kmer |-> k, window_size |-> s,
          combined_strand |-> c, smers |-> m] :
            c \in [1..HashCount(n, k) -> 0..MaxStrandHash],
            m \in [1..HashCount(n, s) -> 0..MaxStrandHash]} :
        n \in 0..MaxTextSize, k \in 1..MaxShapeSize, s \in 1..MaxShapeSize}

\* kmer.size() < window_size.size()
KmerTooSmall(kmer, window_size) == kmer < window_size

InitSyncmerHash ==
    /\ call \in SyncmerHashCalls
    /\ view = NoSyncmerView
    /\ it = NoBasicIterator
    /\ pc = "call"
    /\ out = <<>>
    /\ out_pos = <<>>
    /\ min_pos = -1
    /\ shifts = 0
    /\ tmp = NoCopy

(* syncmer_reverse_hash_fn::operator(): throw std::invalid_argument *)
SyncmerHashThrow ==
    /\ pc = "call"
    /\ KmerTooSmall(call.kmer, call.window_size)
    /\ pc' = "thrown"
    /\ UNCHANGED <<call, view, it, out, out_pos, min_pos, shifts, tmp>>

(* syncmer_reverse_hash_fn::operator(): return syncmer_view(...) *)
SyncmerHashView ==
    /\ pc = "call"
    /\ ~KmerTooSmall(call.kmer, call.window_size)
    /\ view' = [urange1 |-> call.combined_strand, urange2 |-> call.smers,
                window_size |-> call.kmer - call.window_size]
    /\ pc' = "view"
    /\ UNCHANGED <<call, it, out, out_pos, min_pos, shifts, tmp>>

NextSyncmerHash ==
    \/ SyncmerHashThrow
    \/ SyncmerHashView
    \/ SyncmerBegin
    \/ SyncmerDeref
    \/ SyncmerShift
    \/ SyncmerAtEnd

SpecSyncmerHash == InitSyncmerHash /\ [][NextSyncmerHash]_vars

----------------------------------------------------------------------------
(* C21: the syncmer hash adaptor rejects a k-mer shape that is smaller than
   the s-mer shape (k < s) with an invalid-argument error before any view is
   constructed; for k >= s it constructs the view with window k - s and no
   error is raised during iteration.  Stated for texts that hold at least one
   k-mer: iteration neither throws nor runs into undefined behaviour. *)
C21_KmerShapeChecked ==
    /\ (call.kmer < call.window_size /\ pc # "call")
          => (pc = "thrown" /\ view = NoSyncmerView /\ it = NoBasicIterator)
    /\ (call.kmer >= call.window_size /\ pc # "call")
          => /\ pc # "thrown"
             /\ view.window_size = call.kmer - call.window_size
             /\ call.text_size >= call.kmer => pc # "ub"

\* the rejection of k < s alone
C21_Rejection ==
    /\ pc = "thrown" <=> (pc # "call" /\ call.kmer < call.window_size)
    /\ pc = "thrown" => (view = NoSyncmerView /\ it = NoBasicIterator /\ out = <<>>)
    /\ pc \notin {"call", "thrown"} => view.window_size = call.kmer - call.window_size

----------------------------------------------------------------------------
(* The iterators of both views under a consumer that may post-increment once
   and then reads through the iterator the post-increment returned, in turns
   with the iterator it incremented.  The syncmer calls have the s-mer stream
   of a text that holds the k-mer stream: |S| = |K| + window_size. *)

MaxIterLen == 3
MaxIterVal == 1
MaxIterKmers == 2
MaxIterWindow == 2

IteratorMinimiserCalls ==
    {[fn |-> "minimiser_view", urange |-> u, window_values_size |-> w] :
        u \in SeqsUpTo(0..MaxIterVal, MaxIterLen),
        w \in 0..(MaxIterLen + 1)}

IteratorSyncmerCalls ==
    UNION {
        {[fn |-> "syncmer", urange1 |-> u1, urange2 |-> u2, window_size |-> w] :
            u2 \in [1..(Len(u1) + w) -> 0..MaxIterVal]} :
        u1 \in SeqsUpTo(0..MaxIterVal, MaxIterKmers), w \in 0..MaxIterWindow}

IsSyncmer == call.fn = "syncmer"

\* operator++ of window_iterator with the index the cached value was read from
RECURSIVE GetMinimiserFrom(_, _, _)
GetMinimiserFrom(urange, i, old_pos) ==
    LET r == NextMinimiser(urange, i, old_pos)
    IN  IF r.ret THEN r ELSE GetMinimiserFrom(urange, r.it, r.pos)

\* next_unique_syncmer: while (!next_syncmer()) {}
RECURSIVE NextUniqueSyncmer(_, _, _, _)
NextUniqueSyncmer(urange1, urange2, i, old_pos) ==
    LET r == NextSyncmer(urange1, urange2, i, old_pos)
    IN  IF r.ub \/ r.ret THEN r ELSE NextUniqueSyncmer(urange1, urange2, r.it, r.pos)

\* fault: post-increment returns the incremented iterator, as pre-increment does
PostIncrementResult_This(tmp_it, this_it) == this_it

\* return tmp
PostIncrementResult(tmp_it, this_it) == tmp_it

InitIterators ==
    /\ call \in IteratorMinimiserCalls \cup IteratorSyncmerCalls
    /\ view = IF IsSyncmer THEN NoSyncmerView ELSE NoView
    /\ it = IF IsSyncmer THEN NoBasicIterator ELSE NoIterator
    /\ pc = "call"
    /\ out = <<>>
    /\ out_pos = <<>>
    /\ min_pos = IF IsSyncmer THEN -1 ELSE 0
    /\ shifts = 0
    /\ tmp = NoCopy

(* window_iterator::operator++(int): tmp{*this}; get_minimiser(); return tmp *)
PostIncrement ==
    /\ pc = "read"
    /\ ~tmp.made
    /\ LET r == GetMinimiserFrom(view.urange, it, min_pos)
           moved == r.it.window_right - it.window_right
       IN  /\ tmp' = [made |-> TRUE, it |-> PostIncrementResult(it, r.it),
                      from |-> Len(out), out |-> <<>>]
           /\ it' = r.it
           /\ min_pos' = r.pos
           /\ shifts' = shifts +
                  (IF r.it.window_right = Len(view.urange) THEN moved - 1 ELSE moved)
           /\ pc' = "iter"
    /\ UNCHANGED <<call, view, out, out_pos>>

(* the consumer of the returned iterator: tmp != end, *tmp, ++tmp *)
CopyNext ==
    /\ pc \in {"iter", "read", "done"}
    /\ tmp.made
    /\ ~EqualsEnd(tmp.it.window_right, view.urange)
    /\ tmp' = [tmp EXCEPT !.out = Append(@, tmp.it.minimiser_value),
                          !.it = GetMinimiser(view.urange, tmp.it)]
    /\ UNCHANGED <<call, view, it, pc, out, out_pos, min_pos, shifts>>

(* basic_iterator::operator++(int): tmp{*this}; next_unique_syncmer(); return tmp *)
SyncmerPostIncrement ==
    /\ pc = "read"
    /\ ~tmp.made
    /\ LET r == NextUniqueSyncmer(view.urange1, view.urange2, it, min_pos)
           moved == r.it.urng1_iterator - it.urng1_iterator
       IN  /\ tmp' = [made |-> TRUE, it |-> PostIncrementResult(it, r.it),
                      from |-> Len(out), out |-> <<>>]
           /\ min_pos' = r.pos
           /\ shifts' = shifts +
                  (IF r.it.urng1_iterator = Len(view.urange1) THEN moved - 1 ELSE moved)
           /\ IF r.ub
              THEN \E garbage \in 0..MaxIterVal :
                       /\ it' = [r.it EXCEPT !.smer_values = Append(@, garbage)]
                       /\ pc' = "ub"
              ELSE /\ it' = r.it
                   /\ pc' = "iter"
    /\ UNCHANGED <<call, view, out, out_pos>>

(* the consumer of the returned iterator: tmp != end, *tmp, ++tmp *)
SyncmerCopyNext ==
    /\ pc \in {"iter", "read", "done"}
    /\ tmp.made
    /\ tmp.it.urng1_iterator # Len(view.urange1)
    /\ LET r == NextUniqueSyncmer(view.urange1, view.urange2, tmp.it, 0)
       IN  IF r.ub
           THEN \E garbage \in 0..MaxIterVal :
                    /\ tmp' = [tmp EXCEPT !.out = Append(@, tmp.it.syncmer_value),
                                          !.it = [r.it EXCEPT !.smer_values = Append(@, garbage)]]
                    /\ pc' = "ub"
           ELSE /\ tmp' = [tmp EXCEPT !.out = Append(@, tmp.it.syncmer_value),
                                      !.it = r.it]
                /\ pc' = pc
    /\ UNCHANGED <<call, view, it, out, out_pos, min_pos, shifts>>

\* the steps of either view's consumer, told apart by the function called
MinimiserConstructStep == ~IsSyncmer /\ ConstructView
MinimiserBeginStep == ~IsSyncmer /\ Begin
MinimiserDerefStep == ~IsSyncmer /\ Deref
MinimiserShiftStep == ~IsSyncmer /\ Shift
MinimiserPostIncrementStep == ~IsSyncmer /\ PostIncrement
MinimiserCopyStep == ~IsSyncmer /\ CopyNext
MinimiserAtEndStep == ~IsSyncmer /\ AtEnd

SyncmerViewStep == IsSyncmer /\ SyncmerView
SyncmerBeginStep == IsSyncmer /\ SyncmerBegin
SyncmerDerefStep == IsSyncmer /\ SyncmerDeref
SyncmerShiftStep == IsSyncmer /\ SyncmerShift
SyncmerPostIncrementStep == IsSyncmer /\ SyncmerPostIncrement
SyncmerCopyStep == IsSyncmer /\ SyncmerCopyNext
SyncmerAtEndStep == IsSyncmer /\ SyncmerAtEnd

NextIterators ==
    \/ MinimiserConstructStep
    \/ MinimiserBeginStep
    \/ MinimiserDerefStep
    \/ MinimiserShiftStep
    \/ MinimiserPostIncrementStep
    \/ MinimiserCopyStep
    \/ MinimiserAtEndStep
    \/ SyncmerViewStep
    \/ SyncmerBeginStep
    \/ SyncmerDerefStep
    \/ SyncmerShiftStep
    \/ SyncmerPostIncrementStep
    \/ SyncmerCopyStep
    \/ SyncmerAtEndStep

SpecIterators == InitIterators /\ [][NextIterators]_vars

----------------------------------------------------------------------------
(* Vocabulary of the iterator properties *)

\* what the returned iterator dereferences to, and whether it is at end
CopyValue == IF IsSyncmer THEN tmp.it.syncmer_value ELSE tmp.it.minimiser_value
CopyAtEnd ==
    IF IsSyncmer THEN tmp.it.urng1_iterator = Len(view.urange1)
    ELSE tmp.it.window_right = Len(view.urange)

\* index in out of the value the returned iterator dereferences to
CopyIndex == tmp.from + Len(tmp.out)

\* the run is defined so far
Defined == pc # "ub"

----------------------------------------------------------------------------
(* C28: iterator copies are independent.  Advancing a minimiser or syncmer
   iterator leaves the copy a post-increment made of it unchanged (cursor,
   window buffer and cached value), and advancing the copy leaves the
   original unchanged; the iterator returned by post-increment dereferences
   to the old value and, advanced itself, yields the same remaining sequence
   as the original does.  Stated for runs without undefined behaviour. *)
C28_CopyState ==
    (tmp.made /\ Defined)
        => /\ 1 <= tmp.from /\ tmp.from <= Len(out)
           \* what was read through the copy is what the original read from the old value on
           /\ \A j \in 1..Len(tmp.out) :
                 tmp.from + j - 1 <= Len(out) => tmp.out[j] = out[tmp.from + j - 1]
           \* the copy dereferences to the old value, then to the values that follow it
           /\ (~CopyAtEnd /\ CopyIndex <= Len(out)) => CopyValue = out[CopyIndex]
           \* both at end: the same remaining sequence
           /\ (CopyAtEnd /\ pc = "done") => tmp.out = SubSeq(out, tmp.from, Len(out))

C28_Frame ==
    Defined'
        => /\ (~tmp.made /\ tmp'.made) => (tmp'.it = it /\ tmp'.out = <<>>)
           /\ (tmp.made /\ it' # it) => tmp' = tmp
           /\ (tmp.made /\ tmp' # tmp) => (it' = it /\ out' = out /\ min_pos' = min_pos)

C28_CopiesIndependent == []C28_CopyState /\ [][C28_Frame]_vars

\* a minimiser copy and its original both read to the end, the copy two values
C28_Witness ==
    /\ ~IsSyncmer /\ pc = "done" /\ tmp.made /\ CopyAtEnd
    /\ Len(tmp.out) >= 2
    /\ tmp.out[1] # tmp.out[2]

\* the same for a syncmer copy that was advanced before its original was
C28_SyncmerWitness ==
    /\ IsSyncmer /\ pc = "iter" /\ tmp.made /\ CopyAtEnd
    /\ Len(tmp.out) >= 2
    /\ Len(out) = tmp.from
    /\ it.urng1_iterator # Len(view.urange1)

----------------------------------------------------------------------------
(* The consumer under a scheduler that keeps a started increment running:
   the while loop of get_minimiser / next_unique_syncmer is sequential code,
   its next call of the single-shift step is taken whenever it is pending. *)
FairIterators ==
    /\ SpecIterators
    /\ WF_vars(MinimiserShiftStep)
    /\ WF_vars(SyncmerShiftStep)

\* input elements between the upstream cursor and the sentinel
Remaining ==
    IF IsSyncmer THEN Len(view.urange1) - it.urng1_iterator
    ELSE Len(view.urange) - it.window_right

\* an increment of the iterator is pending or under way
Incrementing == pc \in {"read", "inc"}

----------------------------------------------------------------------------
(* C29: every ++ on a minimiser or syncmer iterator that is not at end
   terminates: it repeats the single-shift step until the first shift that
   emits or until the upstream sentinel is reached, performing at most as
   many upstream advances as there are remaining input elements. *)

\* an increment is only under way on an iterator that is not at end
C29_NotAtEnd == Incrementing => Remaining >= 1

\* one single-shift step: one upstream advance, defined, and the loop ends
\* exactly at the sentinel or when the step emitted (the cached value was
\* read from a new position)
C29_SingleShift ==
    (Incrementing /\ it' # it /\ tmp' = tmp)
        => /\ pc' \in {"iter", "inc"}
           /\ Remaining' = Remaining - 1
           /\ pc' = "iter" <=> (Remaining' = 0 \/ min_pos' # min_pos)

\* a whole ++ in one step (post-increment): at most Remaining advances
C29_WholeIncrement ==
    (Incrementing /\ it' # it /\ tmp' # tmp)
        => /\ pc' = "iter"
           /\ Remaining' >= 0 /\ Remaining' < Remaining

C29_Terminates ==
    /\ []C29_NotAtEnd
    /\ [][C29_SingleShift /\ C29_WholeIncrement]_vars
    /\ (Incrementing ~> pc = "iter")

(* C29 where iteration is defined: the same for every minimiser_view and for
   the syncmer_view with a window of at least one shift *)
C29_WhereDefined ==
    /\ []C29_NotAtEnd
    /\ [][(~IsSyncmer \/ call.window_size >= 1) => (C29_SingleShift /\ C29_WholeIncrement)]_vars
    /\ ((Incrementing /\ (~IsSyncmer \/ call.window_size >= 1)) ~> pc = "iter")

----------------------------------------------------------------------------
(* C31: window buffer of the minimiser.  Priming advances the upstream
   cursor exactly w-1 times, and after priming and after every shift that
   does not reach the sentinel the buffer holds exactly the w most recent
   hash values in input order (front the oldest, back the newest): its size
   stays the effective window size. *)
C31_WindowBuffer ==
    (Active /\ W >= 1)
        => /\ Len(it.window_values) = EffW
           /\ it.window_right = shifts + EffW - 1
           /\ it.window_values = SubSeq(Input, it.window_right - EffW + 2, it.window_right + 1)

\* two shifts past the first window of three values, the buffer holds three different values
C31_Witness ==
    /\ Active /\ W = 3 /\ shifts = 2
    /\ pc = "iter"
    /\ it.window_values = SubSeq(Input, 3, 5)
    /\ it.window_values[1] # it.window_values[2]
    /\ it.window_values[2] # it.window_values[3]
    /\ it.window_values[1] # it.window_values[3]

----------------------------------------------------------------------------
(* C32: lockstep of the dual-stream minimiser.  In every reachable state the
   cursor of the second stream is at the same index as the cursor of the
   first stream, the end condition depends on the first stream only, and for
   equal-length streams the second stream is never dereferenced at an index
   at or beyond its length. *)
ConstructedTwo == pc \notin {"call", "thrown"}

C32_LockstepState ==
    /\ it.window_right2 = it.window_right
    /\ pc = "done" => it.window_right = Len(view.urange)
    /\ pc \in {"read", "inc"} => it.window_right2 < Len(view.urange2)

C32_Lockstep ==
    ConstructedTwo
        => /\ Len(view.urange2) = Len(view.urange)
           /\ C32_LockstepState
           /\ pc # "ub"

(* C32 for windows of at least one value: the part of the statement that
   does not depend on the window size being checked *)
C32_WhereDefined ==
    (ConstructedTwo /\ call.window_values_size >= 1)
        => /\ Len(view.urange2) = Len(view.urange)
           /\ C32_LockstepState
           /\ pc # "ub"

----------------------------------------------------------------------------
(* Vocabulary of the syncmer iterator's invariants *)

\* the iterator was primed over a non-empty k-mer stream and is not at end
SyncmerActive ==
    /\ pc \in {"iter", "read", "inc"}
    /\ Len(Kmers) >= 1
    /\ it.urng1_iterator < Len(Kmers)

----------------------------------------------------------------------------
(* C33: while a syncmer iterator over a non-empty k-mer stream is active (not
   at end), its s-mer buffer holds exactly w+1 elements, S_i .. S_{i+w} for
   the current k-mer index i, after priming and after every shift. *)
C33_SmerBuffer ==
    SyncmerActive
        => /\ Len(it.smer_values) = SyncmerW + 1
           /\ it.smer_values =
                 SubSeq(Smers, it.urng1_iterator + 1, it.urng1_iterator + SyncmerW + 1)

\* the second k-mer of two is current, its window of three s-mers has three different values
C33_Witness ==
    /\ SyncmerActive /\ SyncmerW = 2
    /\ Len(Kmers) = 2 /\ it.urng1_iterator = 1
    /\ it.smer_values = SubSeq(Smers, 2, 4)
    /\ it.smer_values[1] # it.smer_values[2]
    /\ it.smer_values[2] # it.smer_values[3]
    /\ it.smer_values[1] # it.smer_values[3]

----------------------------------------------------------------------------
(* C34: in every state of an active syncmer iterator, after priming and
   after every completed shift, the cached smallest s-mer value equals the
   minimum of the values in the s-mer buffer; it is replaced only when the
   previous minimum is removed from the front or a strictly smaller value
   arrives. *)
C34_CachedIsMinimum ==
    SyncmerActive => it.smer_value = SeqMin(it.smer_values)

C34_ReplacedOnlyWhen ==
    (SyncmerActive /\ SyncmerActive' /\ it'.smer_value # it.smer_value)
        => \/ it.smer_value = it.smer_values[1]
           \/ it'.smer_values[Len(it'.smer_values)] < it.smer_value

C34_CachedSmer == []C34_CachedIsMinimum /\ [][C34_ReplacedOnlyWhen]_vars

\* the minimum left at the front and the cached value was replaced by a larger one
C34_Witness ==
    /\ SyncmerActive /\ SyncmerW = 2 /\ it.urng1_iterator = 1
    /\ Smers[1] < SeqMin(it.smer_values)
    /\ it.smer_value = SeqMin(it.smer_values)
    /\ it.smer_values[3] # it.smer_value

----------------------------------------------------------------------------
(* C35: the s-mer cursor is exactly w positions ahead of the k-mer cursor in
   every state after priming; iteration ends exactly when the k-mer stream
   is exhausted, even if the s-mer stream is longer than |K| + w; and no
   s-mer at an index greater than |K| - 1 + w is ever read. *)

\* the iterator was primed without a read past the end of a stream
SyncmerPrimed == pc \in {"iter", "read", "inc", "done"}

\* index of the last s-mer read so far: S_0 .. S_w by priming, one more by
\* every shift that did not reach the end
HighestSmerRead == SyncmerW + shifts

C35_Cursors ==
    /\ it.urng2_iterator = it.urng1_iterator + SyncmerW
    /\ pc = "done" => it.urng1_iterator = Len(Kmers)
    /\ pc \in {"read", "inc"} => it.urng1_iterator < Len(Kmers)
    /\ HighestSmerRead <= Len(Kmers) - 1 + SyncmerW

C35_CursorLockstep ==
    (SyncmerPrimed /\ Len(Smers) >= Len(Kmers) + SyncmerW) => C35_Cursors

\* the same over a non-empty k-mer stream
C35_NonEmpty ==
    (SyncmerPrimed /\ Len(Smers) >= Len(Kmers) + SyncmerW /\ Len(Kmers) >= 1) => C35_Cursors

\* two k-mers over an s-mer stream longer than |K| + w were consumed to the end
C35_LongerWitness ==
    /\ pc = "done" /\ Len(Kmers) = 2 /\ SyncmerW = 2
    /\ Len(Smers) > Len(Kmers) + SyncmerW
    /\ it.urng2_iterator = 4 /\ shifts = 1

----------------------------------------------------------------------------
(* C36: no change of the window minimum is skipped.  For every input and
   window 1 <= w <= n, removing adjacent duplicates from the minimiser's
   output gives exactly the sequence obtained by removing adjacent
   duplicates from the window minima m_0 .. m_{n-w}. *)

RECURSIVE RemoveAdjacentDuplicates(_)
RemoveAdjacentDuplicates(s) ==
    IF Len(s) <= 1 THEN s
    ELSE IF s[1] = s[2] THEN RemoveAdjacentDuplicates(Tail(s))
    ELSE <<s[1]>> \o RemoveAdjacentDuplicates(Tail(s))

\* m_0 .. m_{n-w}
WindowMinima == [i \in 1..(N - W + 1) |-> WindowMin(Input, i - 1, W)]

C36_NoChangeSkipped ==
    (W >= 1 /\ W <= N)
        => /\ pc = "done" =>
                 RemoveAdjacentDuplicates(out) = RemoveAdjacentDuplicates(WindowMinima)
           /\ pc = "read" =>
                 RemoveAdjacentDuplicates(out) =
                     RemoveAdjacentDuplicates(SubSeq(WindowMinima, 1, shifts + 1))

\* the output repeats a value, the minimum changed, and one shift emitted nothing
C36_Witness ==
    /\ pc = "done" /\ W >= 2 /\ W <= N
    /\ Len(RemoveAdjacentDuplicates(out)) = 2
    /\ Len(out) = 3
    /\ Len(WindowMinima) = 4

----------------------------------------------------------------------------
(* C37: a minimiser view with one value per window (the dual-stream adaptor
   with w = 1, or weighted_minimiser_hash with window_size equal to the
   shape size) emits the effective hash of every input position in order,
   adjacent duplicates included: its output has exactly n values. *)
C37_OneValuePerWindow ==
    (call.window_values_size = 1 /\ pc \in {"read", "done"})
        => LET effective == ElementwiseMin(call.urange, call.urange2)
           IN  /\ pc = "read" => out = SubSeq(effective, 1, shifts + 1)
               /\ pc = "done" => (out = effective /\ Len(out) = Len(call.urange))

\* three positions were emitted, two adjacent ones with the same value, one from each range
C37_Witness ==
    /\ call.window_values_size = 1 /\ pc = "done"
    /\ Len(out) = 3 /\ out[1] = out[2] /\ out[2] # out[3]
    /\ call.urange # call.urange2
    /\ \E k \in 1..3 : out[k] # call.urange[k]
    /\ \E k \in 1..3 : out[k] # call.urange2[k]

\* the same through weighted_minimiser_hash: window_size = shape size
C37_Weighted ==
    (Constructed /\ ValuesPerWindow = 1 /\ pc \in {"read", "done"})
        => LET effective == Both(Forward, Reverse, call.bloomfilter)
           IN  /\ pc = "read" => out = SubSeq(effective, 1, shifts + 1)
               /\ pc = "done" => (out = effective /\ Len(out) = Len(Forward))

\* two positions with the same effective hash were both emitted
C37_WeightedWitness ==
    /\ Constructed /\ ValuesPerWindow = 1 /\ pc = "done"
    /\ Len(out) = 2 /\ out[1] = out[2]

----------------------------------------------------------------------------
(* view::take (range/view/take.hpp): view_take<urng_t, exactly, or_throw>
   and a consumer that runs  for (it = begin(); it != end(); ++it) read *it  *)

MaxTakeLen == 3
MaxTakeVal == 1
MaxTakeSize == 4

\* exactly, or_throw: the template arguments; sized: urng_t models SizedRange
TakeCalls ==
    [fn : {"take"},
     urange : SeqsUpTo(0..MaxTakeVal, MaxTakeLen),
     target_size : 0..MaxTakeSize,
     exactly : BOOLEAN,
     or_throw : BOOLEAN,
     sized : BOOLEAN]

NoTakeView == [urange |-> <<>>, target_size |-> 0]

\* base: index of the inherited underlying iterator
NoTakeIterator == [base |-> 0, pos |-> 0, max_pos |-> 0]

(* ranges::size(_urange) is read after urange{std::move(_urange)}: the size
   of a view whose move is a copy, or of one that gave its elements away *)
MovedFromSizes(urange) == {Len(urange), 0}

\* fault: one more element than the target size is passed
PastTarget_Strict(pos, max_pos) == pos > max_pos

\* pos >= max_pos
PastTarget(pos, max_pos) == pos >= max_pos

(* iterator_type::operator==(sentinel_type const &): "true", "false" or
   "throw" (unexpected_end_of_input) *)
EqualsSentinel(i, urange, or_throw) ==
    IF PastTarget(i.pos, i.max_pos) THEN "true"
    ELSE IF i.base = Len(urange)
         THEN (IF or_throw THEN "throw" ELSE "true")
         ELSE "false"

InitTake ==
    /\ call \in TakeCalls
    /\ view = NoTakeView
    /\ it = NoTakeIterator
    /\ pc = "call"
    /\ out = <<>>
    /\ out_pos = <<>>
    /\ min_pos = -1
    /\ shifts = 0
    /\ tmp = NoCopy

(* view_take::view_take: throw std::invalid_argument *)
TakeThrow ==
    /\ pc = "call"
    /\ call.exactly /\ call.or_throw /\ call.sized
    /\ \E moved_size \in MovedFromSizes(call.urange) : moved_size < call.target_size
    /\ pc' = "thrown"
    /\ UNCHANGED <<call, view, it, out, out_pos, min_pos, shifts, tmp>>

(* view_take::view_take: the view is constructed *)
TakeView ==
    /\ pc = "call"
    /\ (call.exactly /\ call.or_throw /\ call.sized)
           => \E moved_size \in MovedFromSizes(call.urange) : ~(moved_size < call.target_size)
    /\ view' = [urange |-> call.urange, target_size |-> call.target_size]
    /\ pc' = "view"
    /\ UNCHANGED <<call, it, out, out_pos, min_pos, shifts, tmp>>

(* view_take::begin *)
TakeBegin ==
    /\ pc = "view"
    /\ it' = [base |-> 0, pos |-> 0, max_pos |-> view.target_size]
    /\ pc' = "iter"
    /\ UNCHANGED <<call, view, out, out_pos, min_pos, shifts, tmp>>

(* it != end() is true: the consumer reads *it *)
TakeDeref ==
    /\ pc = "iter"
    /\ EqualsSentinel(it, view.urange, call.or_throw) = "false"
    /\ out' = Append(out, view.urange[it.base + 1])
    /\ out_pos' = Append(out_pos, it.base)
    /\ pc' = "read"
    /\ UNCHANGED <<call, view, it, min_pos, shifts, tmp>>

(* iterator_type::operator++ *)
TakeIncrement ==
    /\ pc = "read"
    /\ it' = [it EXCEPT !.base = @ + 1, !.pos = @ + 1]
    /\ shifts' = shifts + 1
    /\ pc' = "iter"
    /\ UNCHANGED <<call, view, out, out_pos, min_pos, tmp>>

(* it == end() returns true *)
TakeAtEnd ==
    /\ pc = "iter"
    /\ EqualsSentinel(it, view.urange, call.or_throw) = "true"
    /\ pc' = "done"
    /\ UNCHANGED <<call, view, it, out, out_pos, min_pos, shifts, tmp>>

(* it == end() throws unexpected_end_of_input *)
TakeUnexpectedEnd ==
    /\ pc = "iter"
    /\ EqualsSentinel(it, view.urange, call.or_throw) = "throw"
    /\ pc' = "unexpected_end_of_input"
    /\ UNCHANGED <<call, view, it, out, out_pos, min_pos, shifts, tmp>>

NextTake ==
    \/ TakeThrow
    \/ TakeView
    \/ TakeBegin
    \/ TakeDeref
    \/ TakeIncrement
    \/ TakeAtEnd
    \/ TakeUnexpectedEnd

SpecTake == InitTake /\ [][NextTake]_vars

----------------------------------------------------------------------------
(* C38: view::take yields the first min(size, n) elements of an underlying
   range of n elements.  In the or_throw variant, comparing the iterator
   with the sentinel raises unexpected_end_of_input exactly when the
   underlying range is exhausted before size elements were passed, and
   returns true without raising once size elements were passed, also when
   the underlying range ends at that same position. *)
TakeSmaller(a, b) == IF a <= b THEN a ELSE b

\* the number of elements passed so far
Passed == Len(out)

C38_Take ==
    LET n == Len(call.urange)
        size == call.target_size
    IN  /\ pc \in {"iter", "read", "done", "unexpected_end_of_input"}
            => /\ IsPrefix(out, call.urange)
               /\ Passed <= TakeSmaller(size, n)
        /\ (pc = "done" /\ ~call.or_throw)
            => out = SubSeq(call.urange, 1, TakeSmaller(size, n))
        /\ (pc = "done" /\ call.or_throw)
            => (Passed = size /\ out = SubSeq(call.urange, 1, size))
        /\ pc = "unexpected_end_of_input"
            => (call.or_throw /\ Passed = n /\ Passed < size)
        /\ (pc = "iter" /\ call.or_throw)
            => /\ ENABLED TakeUnexpectedEnd <=> (Passed = n /\ Passed < size)
               /\ ENABLED TakeAtEnd <=> Passed >= size

\* or_throw: the range ended at the position where size elements were passed, no error
C38_Witness ==
    /\ pc = "done" /\ call.or_throw /\ ~call.exactly
    /\ call.target_size = 3 /\ Len(call.urange) = 3
    /\ out = call.urange

\* or_throw: the range ended one element before the target size
C38_RaisedWitness ==
    /\ pc = "unexpected_end_of_input" /\ ~call.exactly
    /\ call.target_size = 3 /\ Len(call.urange) = 2
    /\ Len(out) = 2

----------------------------------------------------------------------------
(* Conversion of an iterator over the view into an iterator over the const
   view (the converting constructors of window_iterator and basic_iterator).
   The consumer reads through the original, converts it once after a read,
   and reads through the converted iterator as well.  The calls are those
   whose iteration is defined: at least one value per window, a non-empty
   k-mer stream and |K| + w s-mers. *)

MaxConvLen == 3
MaxConvVal == 1
MaxConvWindow == 2

\* a default-initialised iterator (it_t2 window_right2;): no position of the range
Singular == -1

IsTwo == call.fn = "minimiser"

(* window_iterator(window_iterator<urng3_t, urng4_t> it): minimiser_value,
   urange_end, window_right and window_values are moved over; window_right2
   is not in the initialiser list *)
ConstWindowIterator(i) ==
    IF "window_right2" \in DOMAIN i
    THEN [minimiser_value |-> i.minimiser_value,
          window_right |-> i.window_right,
          window_right2 |-> Singular,
          window_values |-> i.window_values]
    ELSE [minimiser_value |-> i.minimiser_value,
          window_right |-> i.window_right,
          window_values |-> i.window_values]

(* basic_iterator(basic_iterator<non_const_rng1_t, non_const_rng2_t> it):
   syncmer_value, urng1_iterator, urng1_sentinel and urng2_iterator are
   moved over; smer_value{} and smer_values{} keep their initialisers *)
ConstBasicIterator(i) ==
    [syncmer_value |-> i.syncmer_value,
     smer_value |-> 0,
     urng1_iterator |-> i.urng1_iterator,
     urng2_iterator |-> i.urng2_iterator,
     smer_values |-> <<>>]

InitConvert ==
    /\ \E u \in SeqsUpTo(0..MaxConvVal, MaxConvLen), w \in 1..MaxConvWindow :
          \/ call = [fn |-> "minimiser_view", urange |-> u, window_values_size |-> w]
          \/ \E u2 \in SeqsUpTo(0..MaxConvVal, MaxConvLen) :
                call = [fn |-> "minimiser", urange |-> u, urange2 |-> u2,
                        window_values_size |-> w]
          \/ /\ Len(u) >= 1
             /\ \E u2 \in [1..(Len(u) + w) -> 0..MaxConvVal] :
                   call = [fn |-> "syncmer", urange1 |-> u, urange2 |-> u2, window_size |-> w]
    /\ view = IF IsSyncmer THEN NoSyncmerView ELSE IF IsTwo THEN NoViewTwo ELSE NoView
    /\ it = IF IsSyncmer THEN NoBasicIterator ELSE IF IsTwo THEN NoIteratorTwo ELSE NoIterator
    /\ pc = "call"
    /\ out = <<>>
    /\ out_pos = <<>>
    /\ min_pos = IF IsSyncmer THEN -1 ELSE 0
    /\ shifts = 0
    /\ tmp = NoCopy

(* const_iterator cit{it}; for a minimiser iterator *)
ConvertWindowIterator ==
    /\ pc = "read"
    /\ ~tmp.made
    /\ tmp' = [made |-> TRUE, it |-> ConstWindowIterator(it), from |-> Len(out), out |-> <<>>]
    /\ UNCHANGED <<call, view, it, pc, out, out_pos, min_pos, shifts>>

(* const_iterator cit{it}; for a syncmer iterator *)
ConvertBasicIterator ==
    /\ pc = "read"
    /\ ~tmp.made
    /\ tmp' = [made |-> TRUE, it |-> ConstBasicIterator(it), from |-> Len(out), out |-> <<>>]
    /\ UNCHANGED <<call, view, it, pc, out, out_pos, min_pos, shifts>>

(* the consumer of a dual-stream iterator held in tmp: tmp != end, *tmp,
   ++tmp.  next_minimiser_two advances and dereferences window_right2:
   undefined for a singular iterator, the value read is arbitrary *)
CopyNextTwo ==
    /\ pc \in {"iter", "read", "done"}
    /\ tmp.made
    /\ ~EqualsEnd(tmp.it.window_right, view.urange)
    /\ IF tmp.it.window_right2 = Singular
       THEN \E garbage \in 0..MaxConvVal :
                /\ tmp' = [tmp EXCEPT !.out = Append(@, tmp.it.minimiser_value),
                                      !.it.window_right = @ + 1,
                                      !.it.minimiser_value = garbage]
                /\ pc' = "ub"
       ELSE /\ tmp' = [tmp EXCEPT !.out = Append(@, tmp.it.minimiser_value),
                                  !.it = GetMinimiserTwo(view.urange, view.urange2, tmp.it)]
            /\ pc' = pc
    /\ UNCHANGED <<call, view, it, out, out_pos, min_pos, shifts>>

SingleConstructStep == ~IsSyncmer /\ ~IsTwo /\ ConstructView
SingleBeginStep == ~IsSyncmer /\ ~IsTwo /\ Begin
SingleShiftStep == ~IsSyncmer /\ ~IsTwo /\ Shift
SingleCopyStep == ~IsSyncmer /\ ~IsTwo /\ CopyNext
TwoThrowStep == IsTwo /\ MinimiserTwoThrow
TwoViewStep == IsTwo /\ MinimiserTwoView
TwoBeginStep == IsTwo /\ BeginTwo
TwoShiftStep == IsTwo /\ ShiftTwo
TwoCopyStep == IsTwo /\ CopyNextTwo
WindowDerefStep == ~IsSyncmer /\ Deref
WindowAtEndStep == ~IsSyncmer /\ AtEnd
WindowConvertStep == ~IsSyncmer /\ ConvertWindowIterator
BasicConvertStep == IsSyncmer /\ ConvertBasicIterator

NextConvert ==
    \/ SingleConstructStep
    \/ SingleBeginStep
    \/ SingleShiftStep
    \/ SingleCopyStep
    \/ TwoThrowStep
    \/ TwoViewStep
    \/ TwoBeginStep
    \/ TwoShiftStep
    \/ TwoCopyStep
    \/ WindowDerefStep
    \/ WindowAtEndStep
    \/ WindowConvertStep
    \/ SyncmerViewStep
    \/ SyncmerBeginStep
    \/ SyncmerDerefStep
    \/ SyncmerShiftStep
    \/ BasicConvertStep
    \/ SyncmerCopyStep
    \/ SyncmerAtEndStep

SpecConvert == InitConvert /\ [][NextConvert]_vars

----------------------------------------------------------------------------
(* C39: converting an iterator over the non-const view into an iterator over
   the const view preserves the complete iteration state (all upstream
   cursors, the window or s-mer buffer and the cached minimum), so the
   converted iterator dereferences to the same value and produces the same
   remaining output as the original, for the minimiser (single and dual
   stream) and the syncmer. *)

\* neither the original nor the converted iterator moved since the conversion
JustConverted == tmp.made /\ pc = "read" /\ Len(out) = tmp.from /\ tmp.out = <<>>

\* the converted iterator dereferences to the value the original does
C39_SameValue == JustConverted => CopyValue = out[tmp.from]

C39_SameState == JustConverted => tmp.it = it

C39_SameRemaining ==
    tmp.made
        => /\ Defined
           /\ \A j \in 1..Len(tmp.out) :
                 tmp.from + j - 1 <= Len(out) => tmp.out[j] = out[tmp.from + j - 1]
           /\ (CopyAtEnd /\ pc = "done") => tmp.out = SubSeq(out, tmp.from, Len(out))

C39_ConversionPreserves == C39_SameState /\ C39_SameValue /\ C39_SameRemaining

\* the same for the single-stream minimiser alone
C39_SingleStream == (~IsSyncmer /\ ~IsTwo) => C39_ConversionPreserves

\* the remaining output of a converted syncmer iterator alone
C39_SyncmerRemaining == IsSyncmer => C39_SameRemaining

\* the remaining output of a converted dual-stream iterator alone
C39_TwoRemaining == IsTwo => C39_SameRemaining

\* a converted single-stream iterator and its original both read to the end
C39_SingleWitness ==
    /\ ~IsSyncmer /\ ~IsTwo /\ tmp.made /\ pc = "done" /\ CopyAtEnd
    /\ Len(tmp.out) >= 2 /\ tmp.out[1] # tmp.out[2]

====
